---- MODULE Spec2Model ----
(***************************************************************************)
(* Library management system: catalog, lending workflow, late-fee          *)
(* calculation.  The persistent state is the two SQLite tables of          *)
(* database.py; the operations are the functions of library_service.py.    *)
(*                                                                         *)
(* Strings are sequences of one-character strings, so that len(), strip()  *)
(* and isdigit() are computed.  A datetime is an integer number of clock   *)
(* ticks, TicksPerDay of them per calendar day; the TEXT columns hold its  *)
(* isoformat() text, modelled as the pair <<day, tick within the day>>.    *)
(* Money is an integer number of mills (1/1000 dollar): 0.50 is 500.       *)
(***************************************************************************)
EXTENDS Integers, Sequences, FiniteSets, TLC

VARIABLES
    books,           \* table books, in id order: row i has id i (AUTOINCREMENT)
    borrow_records,  \* table borrow_records, in id order
    now,             \* the wall clock, in ticks
    result           \* what the last call returned, and to which call; in
                     \* RaceSpec, where two calls run at once, the frame of
                     \* each caller's call: its position, locals and return

vars == <<books, borrow_records, now, result>>

----------------------------------------------------------------------------
(* Bounds of the model *)

MaxBooks == 2        \* books in the catalog
MaxRecords == 2      \* borrow records, in Spec
MaxReturned == 2     \* returned borrow records, in LimitSpec
MaxSurplus == 1      \* available copies above total_copies
MaxDay == 20         \* time stops passing on this day
MaxFeeDay == 46      \* last day of a clock reading, in FeeSpec
TicksPerDay == 2     \* clock readings per calendar day

(* Program constants *)

LoanDays == 14             \* timedelta(days=14)
BorrowLimit == 5           \* current_borrowed >= 5
PatronIdLen == 6           \* len(patron_id) != 6
IsbnLen == 13              \* len(isbn) != 13
MaxTitleLen == 200         \* len(title.strip()) > 200
MaxAuthorLen == 100        \* len(author.strip()) > 100
FEE_RATE_TIER1 == 500      \* 0.50 per day
FEE_RATE_TIER2 == 1000     \* 1.00 per day
MAX_FEE_PER_BOOK == 15000  \* 15.00
Tier1Days == 7             \* min(overdue_days, 7)

----------------------------------------------------------------------------
(* Strings *)

Rep(c, n) == [i \in 1..n |-> c]

AsciiDigits == {"0", "1", "2", "3", "4", "5", "6", "7", "8", "9"}

\* str.isdigit() is true of every character with the Unicode property
\* Numeric_Type=Digit or Decimal, not only of the ASCII digits; "sup2"
\* stands for one such character (superscript two).
DigitChars == AsciiDigits \cup {"sup2"}

Whitespace == {" ", "\t"}

isdigit(s) == Len(s) > 0 /\ \A i \in 1..Len(s) : s[i] \in DigitChars

RECURSIVE lstrip(_)
lstrip(s) == IF s # <<>> /\ Head(s) \in Whitespace THEN lstrip(Tail(s)) ELSE s

RECURSIVE rstrip(_)
rstrip(s) ==
    IF s # <<>> /\ s[Len(s)] \in Whitespace
    THEN rstrip(SubSeq(s, 1, Len(s) - 1))
    ELSE s

strip(s) == rstrip(lstrip(s))

UpperCase == <<"A", "B", "C", "D", "E", "F", "G", "H", "I", "J", "K", "L", "M",
               "N", "O", "P", "Q", "R", "S", "T", "U", "V", "W", "X", "Y", "Z">>

LowerCase == <<"a", "b", "c", "d", "e", "f", "g", "h", "i", "j", "k", "l", "m",
               "n", "o", "p", "q", "r", "s", "t", "u", "v", "w", "x", "y", "z">>

\* str.lower(), on the characters above
lower(s) ==
    [i \in 1..Len(s) |->
        IF \E k \in 1..Len(UpperCase) : UpperCase[k] = s[i]
        THEN LowerCase[CHOOSE k \in 1..Len(UpperCase) : UpperCase[k] = s[i]]
        ELSE s[i]]

\* the slip "s.startswith(term)"
contains_Prefix(s, term) ==
    Len(term) <= Len(s) /\ SubSeq(s, 1, Len(term)) = term

\* "term in s": term is a substring of s
contains(s, term) ==
    \E i \in 0..(Len(s) - Len(term)) : SubSeq(s, i + 1, i + Len(term)) = term

\* s.startswith(prefix)
startswith(s, prefix) ==
    Len(prefix) <= Len(s) /\ SubSeq(s, 1, Len(prefix)) = prefix

\* the characters in the order of their code points
CodePoints ==
    <<"\t", " ", "0", "1", "2", "3", "4", "5", "6", "7", "8", "9">>
    \o UpperCase \o LowerCase \o <<"sup2">>

ord(c) == CHOOSE k \in 1..Len(CodePoints) : CodePoints[k] = c

\* a < b in the BINARY collation of a TEXT column
RECURSIVE BinaryLess(_, _)
BinaryLess(a, b) ==
    IF b = <<>> THEN FALSE
    ELSE IF a = <<>> THEN TRUE
    ELSE IF Head(a) # Head(b) THEN ord(Head(a)) < ord(Head(b))
    ELSE BinaryLess(Tail(a), Tail(b))

----------------------------------------------------------------------------
(* datetime *)

None == -1       \* Python None where a datetime is expected
NULL == <<>>     \* SQL NULL in a TEXT column

date(t) == t \div TicksPerDay

isoformat(t) == <<t \div TicksPerDay, t % TicksPerDay>>

fromisoformat(s) == s[1] * TicksPerDay + s[2]

\* comparison of two isoformat texts, as ORDER BY does on a TEXT column
TextLeq(a, b) == a[1] < b[1] \/ (a[1] = b[1] /\ a[2] <= b[2])

timedelta_days(n) == n * TicksPerDay

strftime_date(t) == date(t)

----------------------------------------------------------------------------
(* database.py: the accessors, as functions of the tables *)

\* SELECT * FROM books ORDER BY title: the lists the query can return.  Rows
\* of equal title come in an order the query leaves open.
get_all_books(bks) ==
    LET n == Len(bks)
        orders == {f \in [1..n -> 1..n] :
                      /\ \A i, j \in 1..n : f[i] = f[j] => i = j
                      /\ \A i, j \in 1..n :
                            i < j => ~BinaryLess(bks[f[j]].title, bks[f[i]].title)}
    IN  {[k \in 1..n |-> bks[f[k]]] : f \in orders}

get_book_by_id(bks, book_id) ==
    IF book_id \in 1..Len(bks) THEN <<bks[book_id]>> ELSE <<>>

get_book_by_isbn(bks, isbn) ==
    LET hits == {i \in 1..Len(bks) : bks[i].isbn = isbn}
    IN  IF hits = {} THEN <<>>
        ELSE <<bks[CHOOSE i \in hits : \A j \in hits : i <= j]>>

get_patron_borrow_count(recs, patron_id) ==
    Cardinality({i \in 1..Len(recs) :
                    /\ recs[i].patron_id = patron_id
                    /\ recs[i].return_date = NULL})

\* the slip "ORDER BY br.borrow_date" (ascending)
RECURSIVE OrderByBorrowDateDesc_Asc(_)
OrderByBorrowDateDesc_Asc(rows) ==
    IF rows = {} THEN <<>>
    ELSE LET first == CHOOSE r \in rows :
                          \A q \in rows : TextLeq(r.borrow_date, q.borrow_date)
         IN  <<first>> \o OrderByBorrowDateDesc_Asc(rows \ {first})

\* ORDER BY br.borrow_date DESC over a set of rows.  No two rows of one
\* patron share a borrow_date (see BorrowDatesDistinct), so the order is
\* determined.
RECURSIVE OrderByBorrowDateDesc(_)
OrderByBorrowDateDesc(rows) ==
    IF rows = {} THEN <<>>
    ELSE LET first == CHOOSE r \in rows :
                          \A q \in rows : TextLeq(q.borrow_date, r.borrow_date)
         IN  <<first>> \o OrderByBorrowDateDesc(rows \ {first})

\* one dict of the list get_patron_borrowed_books returns
BorrowedBookDict(bks, row, t) ==
    [book_id     |-> row.book_id,
     title       |-> bks[row.book_id].title,
     author      |-> bks[row.book_id].author,
     borrow_date |-> fromisoformat(row.borrow_date),
     due_date    |-> fromisoformat(row.due_date),
     is_overdue  |-> t > fromisoformat(row.due_date),
     return_date |-> IF row.return_date # NULL
                     THEN fromisoformat(row.return_date) ELSE None]

\* the slip of leaving "WHERE br.patron_id = ?" out
get_patron_borrowed_books_AnyPatron(bks, recs, patron_id, t) ==
    LET joined == {recs[i] : i \in {j \in 1..Len(recs) :
                                       recs[j].book_id \in 1..Len(bks)}}
        sorted == OrderByBorrowDateDesc(joined)
    IN  [k \in 1..Len(sorted) |-> BorrowedBookDict(bks, sorted[k], t)]

get_patron_borrowed_books(bks, recs, patron_id, t) ==
    LET joined == {recs[i] : i \in {j \in 1..Len(recs) :
                                       /\ recs[j].patron_id = patron_id
                                       /\ recs[j].book_id \in 1..Len(bks)}}
        sorted == OrderByBorrowDateDesc(joined)
    IN  [k \in 1..Len(sorted) |-> BorrowedBookDict(bks, sorted[k], t)]

insert_book(bks, title, author, isbn, total_copies, available_copies) ==
    Append(bks, [id               |-> Len(bks) + 1,
                 title            |-> title,
                 author           |-> author,
                 isbn             |-> isbn,
                 total_copies     |-> total_copies,
                 available_copies |-> available_copies])

insert_borrow_record(recs, patron_id, book_id, borrow_date, due_date) ==
    Append(recs, [id          |-> Len(recs) + 1,
                  patron_id   |-> patron_id,
                  book_id     |-> book_id,
                  borrow_date |-> isoformat(borrow_date),
                  due_date    |-> isoformat(due_date),
                  return_date |-> NULL])

\* the slip "SET available_copies = ?" for "available_copies + ?"
update_book_availability_Set(bks, book_id, change) ==
    [i \in 1..Len(bks) |->
        IF bks[i].id = book_id
        THEN [bks[i] EXCEPT !.available_copies = change]
        ELSE bks[i]]

update_book_availability(bks, book_id, change) ==
    [i \in 1..Len(bks) |->
        IF bks[i].id = book_id
        THEN [bks[i] EXCEPT !.available_copies = @ + change]
        ELSE bks[i]]

\* the slip of leaving "AND return_date IS NULL" out of the WHERE clause
update_borrow_record_return_date_All(recs, patron_id, book_id, return_date) ==
    [i \in 1..Len(recs) |->
        IF /\ recs[i].patron_id = patron_id
           /\ recs[i].book_id = book_id
        THEN [recs[i] EXCEPT !.return_date = isoformat(return_date)]
        ELSE recs[i]]

update_borrow_record_return_date(recs, patron_id, book_id, return_date) ==
    [i \in 1..Len(recs) |->
        IF /\ recs[i].patron_id = patron_id
           /\ recs[i].book_id = book_id
           /\ recs[i].return_date = NULL
        THEN [recs[i] EXCEPT !.return_date = isoformat(return_date)]
        ELSE recs[i]]

----------------------------------------------------------------------------
(* library_service.py: helpers shared by the entry points *)

Min(a, b) == IF a <= b THEN a ELSE b

\* round(x, 2) on an amount in mills: to the nearest cent, ties to even
round2(m) ==
    LET q == m \div 10
        r == m % 10
    IN  IF r > 5 \/ (r = 5 /\ q % 2 = 1) THEN (q + 1) * 10 ELSE q * 10

\* the slip of leaving "or len(patron_id) != 6" out
InvalidPatronId_NoLength(patron_id) ==
    \/ Len(patron_id) = 0
    \/ ~isdigit(patron_id)

\* not patron_id or not patron_id.isdigit() or len(patron_id) != 6
InvalidPatronId(patron_id) ==
    \/ Len(patron_id) = 0
    \/ ~isdigit(patron_id)
    \/ Len(patron_id) # PatronIdLen

\* the slip of taking the patron's first record, whatever its book
FindBorrowRecord_AnyBook(borrowed_books, book_id) ==
    IF borrowed_books = <<>> THEN <<>> ELSE <<borrowed_books[1]>>

\* next((book for book in borrowed_books if book['book_id'] == book_id), None)
\* as a sequence: empty for None, else the one dict found
FindBorrowRecord(borrowed_books, book_id) ==
    LET hits == {k \in 1..Len(borrowed_books) :
                    borrowed_books[k].book_id = book_id}
    IN  IF hits = {} THEN <<>>
        ELSE <<borrowed_books[CHOOSE k \in hits : \A j \in hits : k <= j]>>

\* the slip of leaving the cap out
TieredFee_NoCap(overdue_days) ==
    LET tier1_days == Min(overdue_days, Tier1Days)
        tier1 == tier1_days * FEE_RATE_TIER1
        tier2 == IF overdue_days > Tier1Days
                 THEN (overdue_days - Tier1Days) * FEE_RATE_TIER2
                 ELSE 0
    IN  round2(tier1 + tier2)

\* the tiered fee, from the overdue days on
TieredFee(overdue_days) ==
    LET tier1_days == Min(overdue_days, Tier1Days)
        tier1 == tier1_days * FEE_RATE_TIER1
        tier2 == IF overdue_days > Tier1Days
                 THEN (overdue_days - Tier1Days) * FEE_RATE_TIER2
                 ELSE 0
    IN  round2(Min(tier1 + tier2, MAX_FEE_PER_BOOK))

\* the fee of one record, from its due date and the calculation date
LateFee(due_date, calculation_date) ==
    LET overdue_days == date(calculation_date) - date(due_date)
    IN  IF overdue_days <= 0
        THEN [fee_amount |-> 0, days_overdue |-> 0, status |-> "Not overdue."]
        ELSE [fee_amount   |-> TieredFee(overdue_days),
              days_overdue |-> overdue_days,
              status       |-> "Book is {overdue_days} day(s) overdue."]

calculate_late_fee_for_book(bks, recs, t, patron_id, book_id) ==
    IF InvalidPatronId(patron_id)
    THEN [fee_amount |-> 0, days_overdue |-> 0,
          status |-> "Invalid patron ID format."]
    ELSE
    LET borrowed_books == get_patron_borrowed_books(bks, recs, patron_id, t)
        borrow_record == FindBorrowRecord(borrowed_books, book_id)
    IN  IF borrow_record = <<>>
        THEN IF get_book_by_id(bks, book_id) = <<>>
             THEN [fee_amount |-> 0, days_overdue |-> 0,
                   status |-> "Book not found."]
             ELSE [fee_amount |-> 0, days_overdue |-> 0,
                   status |-> "Book is not currently borrowed by this patron."]
        ELSE LET calculation_date ==
                     IF borrow_record[1].return_date = None
                     THEN t
                     ELSE borrow_record[1].return_date
             IN  LateFee(borrow_record[1].due_date, calculation_date)

\* accessor calls calculate_late_fee_for_book makes:
\* get_patron_borrowed_books, then get_book_by_id when no record is found
FeeReads(bks, recs, t, patron_id, book_id) ==
    IF InvalidPatronId(patron_id) THEN 0
    ELSE IF FindBorrowRecord(get_patron_borrowed_books(bks, recs, patron_id, t),
                             book_id) = <<>>
    THEN 2
    ELSE 1

----------------------------------------------------------------------------
(* The value an entry point returns, with the call it answers.  Fields a   *)
(* call does not produce keep the values of NoResult.                      *)

NoResult ==
    [op      |-> "none",  \* which entry point
     patron  |-> <<>>,    \* its patron_id argument
     book    |-> 0,       \* its book_id argument
     success |-> FALSE,   \* first component of the returned tuple
     message |-> "",      \* the message, or the status of a fee calculation
     title   |-> <<>>,    \* the title quoted in the message
     due     |-> 0,       \* the due date quoted by borrow (%Y-%m-%d)
     fee     |-> 0,       \* fee_amount
     days    |-> 0,       \* days_overdue
     note    |-> FALSE,   \* return: the late-fee sentence is appended
     report  |-> <<>>,    \* status report: the dict returned, in a 1-tuple
     list    |-> <<>>,    \* search: the list returned
     reads   |-> 0,       \* calls of the accessors of database.py made
     txn     |-> <<>>,    \* payment: the transaction id, <<>> for None
     text    |-> "",      \* payment: the adapter's text quoted in the message
     calls   |-> <<>>,    \* payment: the calls made to the adapter, in order
     query   |-> <<>>]    \* search: <<search_term, search_type>>;
                          \* refund: <<transaction_id, amount>>

Failure(op, patron_id, book_id, message) ==
    [NoResult EXCEPT !.op = op, !.patron = patron_id, !.book = book_id,
                     !.message = message]

----------------------------------------------------------------------------
(* add_book_to_catalog *)

\* the slip of leaving "or not title.strip()" out
Blank_EmptyOnly(s) == Len(s) = 0

\* not title or not title.strip()
Blank(s) == Len(s) = 0 \/ Len(strip(s)) = 0

\* the slip "len(title.strip()) >= 200"
TitleTooLong_Ge(title) == Len(strip(title)) >= MaxTitleLen

TitleTooLong(title) == Len(strip(title)) > MaxTitleLen

AuthorTooLong(author) == Len(strip(author)) > MaxAuthorLen

BadIsbn(isbn) == Len(isbn) # IsbnLen

\* not isinstance(total_copies, int) or total_copies <= 0
BadCopies(total_copies) == total_copies \notin Int \/ total_copies <= 0

\* the slip of leaving the lookup by ISBN out
AddBookMessage_NoLookup(bks, title, author, isbn, total_copies, insertOK) ==
    IF Blank(title) THEN "Title is required."
    ELSE IF TitleTooLong(title) THEN "Title must be less than 200 characters."
    ELSE IF Blank(author) THEN "Author is required."
    ELSE IF AuthorTooLong(author) THEN "Author must be less than 100 characters."
    ELSE IF BadIsbn(isbn) THEN "ISBN must be exactly 13 digits."
    ELSE IF BadCopies(total_copies) THEN "Total copies must be a positive integer."
    ELSE IF insertOK THEN "Book {title} has been successfully added to the catalog."
    ELSE "Database error occurred while adding the book."

AddBookMessage(bks, title, author, isbn, total_copies, insertOK) ==
    IF Blank(title) THEN "Title is required."
    ELSE IF TitleTooLong(title) THEN "Title must be less than 200 characters."
    ELSE IF Blank(author) THEN "Author is required."
    ELSE IF AuthorTooLong(author) THEN "Author must be less than 100 characters."
    ELSE IF BadIsbn(isbn) THEN "ISBN must be exactly 13 digits."
    ELSE IF BadCopies(total_copies) THEN "Total copies must be a positive integer."
    ELSE IF get_book_by_isbn(bks, isbn) # <<>>
         THEN "A book with this ISBN already exists."
    ELSE IF insertOK THEN "Book {title} has been successfully added to the catalog."
    ELSE "Database error occurred while adding the book."

\* accessor calls made up to the return of the message: get_book_by_isbn,
\* then insert_book
AddBookReads(message) ==
    IF message \in {"Book {title} has been successfully added to the catalog.",
                    "Database error occurred while adding the book."} THEN 2
    ELSE IF message = "A book with this ISBN already exists." THEN 1
    ELSE 0

AddBook(title, author, isbn, total_copies, insertOK) ==
    LET message == AddBookMessage(books, title, author, isbn, total_copies, insertOK)
        success == message = "Book {title} has been successfully added to the catalog."
    IN  /\ books' = IF success
                    THEN insert_book(books, strip(title), strip(author), isbn,
                                     total_copies, total_copies)
                    ELSE books
        /\ result' = [NoResult EXCEPT !.op = "add_book",
                                      !.success = success,
                                      !.message = message,
                                      !.title = IF success THEN strip(title) ELSE <<>>,
                                      !.reads = AddBookReads(message)]
        /\ UNCHANGED <<borrow_records, now>>

----------------------------------------------------------------------------
(* borrow_book_by_patron *)

\* book['available_copies'] <= 0
NotAvailable(book) == book.available_copies <= 0

\* the slip "current_borrowed > 5"
LimitReached_Above(current_borrowed) == current_borrowed > BorrowLimit

\* current_borrowed >= 5
LimitReached(current_borrowed) == current_borrowed >= BorrowLimit

\* the slip of counting the borrow day in: 15 days
DueDate_Late(borrow_date) == borrow_date + timedelta_days(LoanDays + 1)

\* due_date = borrow_date + timedelta(days=14)
DueDate(borrow_date) == borrow_date + timedelta_days(LoanDays)

\* the slip of testing the limit before the availability
BorrowRefusal_LimitFirst(bks, recs, patron_id, book_id) ==
    LET book == get_book_by_id(bks, book_id)
    IN  IF InvalidPatronId(patron_id)
        THEN "Invalid patron ID. Must be exactly 6 digits."
        ELSE IF book = <<>> THEN "Book not found."
        ELSE IF LimitReached(get_patron_borrow_count(recs, patron_id))
             THEN "You have reached the maximum borrowing limit of 5 books."
        ELSE IF NotAvailable(book[1]) THEN "This book is currently not available."
        ELSE ""

\* The first precondition that fails, as the message returned for it; ""
\* when all four hold.
BorrowRefusal(bks, recs, patron_id, book_id) ==
    LET book == get_book_by_id(bks, book_id)
    IN  IF InvalidPatronId(patron_id)
        THEN "Invalid patron ID. Must be exactly 6 digits."
        ELSE IF book = <<>> THEN "Book not found."
        ELSE IF NotAvailable(book[1]) THEN "This book is currently not available."
        ELSE IF LimitReached(get_patron_borrow_count(recs, patron_id))
             THEN "You have reached the maximum borrowing limit of 5 books."
        ELSE ""

\* accessor calls made up to a refusal: get_book_by_id, then
\* get_patron_borrow_count
BorrowReads(refusal) ==
    IF refusal = "Invalid patron ID. Must be exactly 6 digits." THEN 0
    ELSE IF refusal = "You have reached the maximum borrowing limit of 5 books."
    THEN 2
    ELSE 1

\* datetime.now() as borrow reads it: the clock has microsecond resolution
\* and every insert commits, so no two borrows read the same value; one
\* tick is the least difference.
BorrowClock(t) == t + 1

\* the slip of creating the record before the checks are made
Borrow_InsertFirst(patron_id, book_id, insertOK, updateOK) ==
    LET refusal == BorrowRefusal(books, borrow_records, patron_id, book_id)
        borrow_date == BorrowClock(now)
        due_date == DueDate(borrow_date)
    IN  IF refusal # ""
        THEN /\ result' = [Failure("borrow", patron_id, book_id, refusal)
                                EXCEPT !.reads = BorrowReads(refusal)]
             /\ borrow_records' =
                    insert_borrow_record(borrow_records, patron_id, book_id,
                                         borrow_date, due_date)
             /\ UNCHANGED <<books, now>>
        ELSE /\ now' = borrow_date
             /\ IF ~insertOK
                THEN /\ result' = [Failure("borrow", patron_id, book_id,
                            "Database error occurred while creating borrow record.")
                                       EXCEPT !.reads = 3]
                     /\ UNCHANGED <<books, borrow_records>>
                ELSE /\ borrow_records' =
                            insert_borrow_record(borrow_records, patron_id,
                                                 book_id, borrow_date, due_date)
                     /\ IF ~updateOK
                        THEN /\ result' = [Failure("borrow", patron_id, book_id,
                                    "Database error occurred while updating book availability.")
                                               EXCEPT !.reads = 4]
                             /\ UNCHANGED books
                        ELSE /\ books' = update_book_availability(books, book_id, -1)
                             /\ result' =
                                  [NoResult EXCEPT
                                      !.op = "borrow",
                                      !.patron = patron_id,
                                      !.book = book_id,
                                      !.success = TRUE,
                                      !.message = "Successfully borrowed {title}. Due date: {due}.",
                                      !.title = books[book_id].title,
                                      !.due = strftime_date(due_date),
                                      !.reads = 4]

\* the slip of taking the new record back when the decrement fails
Borrow_Rollback(patron_id, book_id, insertOK, updateOK) ==
    LET refusal == BorrowRefusal(books, borrow_records, patron_id, book_id)
        borrow_date == BorrowClock(now)
        due_date == DueDate(borrow_date)
    IN  IF refusal # ""
        THEN /\ result' = [Failure("borrow", patron_id, book_id, refusal)
                                EXCEPT !.reads = BorrowReads(refusal)]
             /\ UNCHANGED <<books, borrow_records, now>>
        ELSE /\ now' = borrow_date
             /\ IF ~insertOK
                THEN /\ result' = [Failure("borrow", patron_id, book_id,
                            "Database error occurred while creating borrow record.")
                                       EXCEPT !.reads = 3]
                     /\ UNCHANGED <<books, borrow_records>>
                ELSE /\ borrow_records' =
                            IF updateOK
                            THEN insert_borrow_record(borrow_records, patron_id,
                                                      book_id, borrow_date, due_date)
                            ELSE borrow_records
                     /\ IF ~updateOK
                        THEN /\ result' = [Failure("borrow", patron_id, book_id,
                                    "Database error occurred while updating book availability.")
                                               EXCEPT !.reads = 4]
                             /\ UNCHANGED books
                        ELSE /\ books' = update_book_availability(books, book_id, -1)
                             /\ result' =
                                  [NoResult EXCEPT
                                      !.op = "borrow",
                                      !.patron = patron_id,
                                      !.book = book_id,
                                      !.success = TRUE,
                                      !.message = "Successfully borrowed {title}. Due date: {due}.",
                                      !.title = books[book_id].title,
                                      !.due = strftime_date(due_date),
                                      !.reads = 4]

Borrow(patron_id, book_id, insertOK, updateOK) ==
    LET refusal == BorrowRefusal(books, borrow_records, patron_id, book_id)
        borrow_date == BorrowClock(now)
        due_date == DueDate(borrow_date)
    IN  IF refusal # ""
        THEN /\ result' = [Failure("borrow", patron_id, book_id, refusal)
                                EXCEPT !.reads = BorrowReads(refusal)]
             /\ UNCHANGED <<books, borrow_records, now>>
        ELSE /\ now' = borrow_date
             /\ IF ~insertOK
                THEN /\ result' = [Failure("borrow", patron_id, book_id,
                            "Database error occurred while creating borrow record.")
                                       EXCEPT !.reads = 3]
                     /\ UNCHANGED <<books, borrow_records>>
                ELSE /\ borrow_records' =
                            insert_borrow_record(borrow_records, patron_id,
                                                 book_id, borrow_date, due_date)
                     /\ IF ~updateOK
                        THEN /\ result' = [Failure("borrow", patron_id, book_id,
                                    "Database error occurred while updating book availability.")
                                               EXCEPT !.reads = 4]
                             /\ UNCHANGED books
                        ELSE /\ books' = update_book_availability(books, book_id, -1)
                             /\ result' =
                                  [NoResult EXCEPT
                                      !.op = "borrow",
                                      !.patron = patron_id,
                                      !.book = book_id,
                                      !.success = TRUE,
                                      !.message = "Successfully borrowed {title}. Due date: {due}.",
                                      !.title = books[book_id].title,
                                      !.due = strftime_date(due_date),
                                      !.reads = 4]

----------------------------------------------------------------------------
(* return_book_by_patron *)

Return(patron_id, book_id, setOK, updateOK) ==
    IF InvalidPatronId(patron_id)
    THEN /\ result' = Failure("return", patron_id, book_id,
                              "Invalid patron ID. Must be exactly 6 digits.")
         /\ UNCHANGED <<books, borrow_records, now>>
    ELSE
    LET borrowed_books == get_patron_borrowed_books(books, borrow_records, patron_id, now)
        borrow_record == FindBorrowRecord(borrowed_books, book_id)
        recs1 == update_borrow_record_return_date(borrow_records, patron_id, book_id, now)
        bks1 == update_book_availability(books, book_id, 1)
        fee_details == calculate_late_fee_for_book(bks1, recs1, now, patron_id, book_id)
    IN  IF borrow_record = <<>>
        THEN /\ result' = [Failure("return", patron_id, book_id,
                    "No active borrowing record found for this book and patron.")
                               EXCEPT !.reads = 1]
             /\ UNCHANGED <<books, borrow_records, now>>
        ELSE IF ~setOK
        THEN /\ result' = [Failure("return", patron_id, book_id,
                    "Database error occurred while recording the return date.")
                               EXCEPT !.reads = 2]
             /\ UNCHANGED <<books, borrow_records, now>>
        ELSE /\ borrow_records' = recs1
             /\ UNCHANGED now
             /\ IF ~updateOK
                THEN /\ result' = [Failure("return", patron_id, book_id,
                            "Database error occurred while incrementing book availability.")
                                       EXCEPT !.reads = 3]
                     /\ UNCHANGED books
                ELSE /\ books' = bks1
                     /\ result' =
                          [NoResult EXCEPT
                              !.op = "return",
                              !.patron = patron_id,
                              !.book = book_id,
                              !.success = TRUE,
                              !.message = "Successfully returned {title}.",
                              !.title = bks1[book_id].title,
                              !.fee = fee_details.fee_amount,
                              !.days = fee_details.days_overdue,
                              !.note = fee_details.fee_amount > 0,
                              !.reads = 4 + FeeReads(bks1, recs1, now,
                                                     patron_id, book_id)]

----------------------------------------------------------------------------
(* calculate_late_fee_for_book, called on its own *)

CalculateLateFee(patron_id, book_id) ==
    LET fee == calculate_late_fee_for_book(books, borrow_records, now,
                                           patron_id, book_id)
    IN  /\ result' = [NoResult EXCEPT !.op = "late_fee",
                                      !.patron = patron_id,
                                      !.book = book_id,
                                      !.message = fee.status,
                                      !.fee = fee.fee_amount,
                                      !.days = fee.days_overdue,
                                      !.reads = FeeReads(books, borrow_records, now,
                                                         patron_id, book_id)]
        /\ UNCHANGED <<books, borrow_records, now>>

----------------------------------------------------------------------------
(* search_books_in_catalog *)

valid_types == {<<"t", "i", "t", "l", "e">>,
                <<"a", "u", "t", "h", "o", "r">>,
                <<"i", "s", "b", "n">>}

\* the slip of testing the term before the type
search_books_in_catalog_TermFirst(all_books, search_term, search_type) ==
    IF Blank(search_term)
    THEN [list |-> all_books, reads |-> 1]
    ELSE IF lower(search_type) \notin valid_types
    THEN [list |-> <<>>, reads |-> 0]
    ELSE
    LET term == lower(strip(search_term))
        search_by == lower(search_type)
        Match(book) ==
            IF search_by = <<"i", "s", "b", "n">>
            THEN book.isbn = strip(search_term)
            ELSE IF search_by = <<"t", "i", "t", "l", "e">>
            THEN contains(lower(book.title), term)
            ELSE contains(lower(book.author), term)
    IN  [list |-> SelectSeq(all_books, Match), reads |-> 1]

\* The list returned and the number of get_all_books calls made, with
\* all_books what such a call returns.
search_books_in_catalog(all_books, search_term, search_type) ==
    IF lower(search_type) \notin valid_types
    THEN [list |-> <<>>, reads |-> 0]
    ELSE IF Blank(search_term)
    THEN [list |-> all_books, reads |-> 1]
    ELSE
    LET term == lower(strip(search_term))
        search_by == lower(search_type)
        Match(book) ==
            IF search_by = <<"i", "s", "b", "n">>
            THEN book.isbn = strip(search_term)
            ELSE IF search_by = <<"t", "i", "t", "l", "e">>
            THEN contains(lower(book.title), term)
            ELSE contains(lower(book.author), term)
    IN  [list |-> SelectSeq(all_books, Match), reads |-> 1]

Search(search_term, search_type) ==
    /\ \E all_books \in get_all_books(books) :
          LET found == search_books_in_catalog(all_books, search_term, search_type)
          IN  result' = [NoResult EXCEPT !.op = "search",
                                         !.query = <<search_term, search_type>>,
                                         !.list = found.list,
                                         !.reads = found.reads]
    /\ UNCHANGED <<books, borrow_records, now>>

----------------------------------------------------------------------------
(* pay_late_fees.  answer is what payment_gateway.process_payment does when *)
(* it is called: it raises an exception with the text answer.message, or   *)
(* it returns (answer.success, answer.transaction_id, answer.message).     *)

\* the slip of asking the adapter before the fee is tested
pay_late_fees_NoFeeTest(bks, recs, t, patron_id, book_id, answer) ==
    LET fee_info == calculate_late_fee_for_book(bks, recs, t, patron_id, book_id)
        fee_amount == fee_info.fee_amount
        book == get_book_by_id(bks, book_id)
        call == [patron_id   |-> patron_id,
                 amount      |-> fee_amount,
                 description |-> book[1].title]
    IN  IF InvalidPatronId(patron_id)
        THEN Failure("pay", patron_id, book_id,
                     "Invalid patron ID. Must be exactly 6 digits.")
        ELSE IF book = <<>>
        THEN Failure("pay", patron_id, book_id, "Book not found.")
        ELSE IF answer.raises
        THEN [Failure("pay", patron_id, book_id, "Payment processing error: {e}")
                  EXCEPT !.text = answer.message, !.calls = <<call>>]
        ELSE IF answer.success
        THEN [Failure("pay", patron_id, book_id, "Payment successful! {message}")
                  EXCEPT !.success = TRUE,
                         !.txn = <<answer.transaction_id>>,
                         !.text = answer.message,
                         !.calls = <<call>>]
        ELSE [Failure("pay", patron_id, book_id, "Payment failed: {message}")
                  EXCEPT !.text = answer.message, !.calls = <<call>>]

\* what the call returns, with the calls it made to the adapter
pay_late_fees(bks, recs, t, patron_id, book_id, answer) ==
    LET fee_info == calculate_late_fee_for_book(bks, recs, t, patron_id, book_id)
        fee_amount == fee_info.fee_amount
        book == get_book_by_id(bks, book_id)
        call == [patron_id   |-> patron_id,
                 amount      |-> fee_amount,
                 description |-> book[1].title]
    IN  IF InvalidPatronId(patron_id)
        THEN Failure("pay", patron_id, book_id,
                     "Invalid patron ID. Must be exactly 6 digits.")
        ELSE IF fee_amount <= 0
        THEN Failure("pay", patron_id, book_id,
                     "No late fees to pay for this book.")
        ELSE IF book = <<>>
        THEN Failure("pay", patron_id, book_id, "Book not found.")
        ELSE IF answer.raises
        THEN [Failure("pay", patron_id, book_id, "Payment processing error: {e}")
                  EXCEPT !.text = answer.message, !.calls = <<call>>]
        ELSE IF answer.success
        THEN [Failure("pay", patron_id, book_id, "Payment successful! {message}")
                  EXCEPT !.success = TRUE,
                         !.txn = <<answer.transaction_id>>,
                         !.text = answer.message,
                         !.calls = <<call>>]
        ELSE [Failure("pay", patron_id, book_id, "Payment failed: {message}")
                  EXCEPT !.text = answer.message, !.calls = <<call>>]

\* accessor calls pay_late_fees makes: those of the fee calculation, then
\* get_book_by_id when there is a fee to pay
PayReads(bks, recs, t, patron_id, book_id) ==
    IF InvalidPatronId(patron_id) THEN 0
    ELSE FeeReads(bks, recs, t, patron_id, book_id)
         + (IF calculate_late_fee_for_book(bks, recs, t, patron_id,
                                           book_id).fee_amount > 0
            THEN 1 ELSE 0)

\* the slip of closing the loan once its fee is paid
PayLateFees_Settles(patron_id, book_id, answer) ==
    LET paid == pay_late_fees(books, borrow_records, now, patron_id, book_id, answer)
    IN  /\ result' = [paid EXCEPT !.reads = PayReads(books, borrow_records, now,
                                                     patron_id, book_id)]
        /\ borrow_records' =
               IF paid.success
               THEN update_borrow_record_return_date(borrow_records, patron_id,
                                                     book_id, now)
               ELSE borrow_records
        /\ UNCHANGED <<books, now>>

PayLateFees(patron_id, book_id, answer) ==
    /\ result' = [pay_late_fees(books, borrow_records, now, patron_id, book_id, answer)
                      EXCEPT !.reads = PayReads(books, borrow_records, now,
                                                patron_id, book_id)]
    /\ UNCHANGED <<books, borrow_records, now>>

----------------------------------------------------------------------------
(* refund_late_fee_payment.  answer is what payment_gateway.refund_payment *)
(* does when it is called: it raises an exception with the text            *)
(* answer.message, or it returns (answer.success, answer.message).         *)

TxnPrefix == <<"t", "x", "n", "_">>

\* the slip "amount >= 15.00"
RefundTooLarge_Ge(amount) == amount >= MAX_FEE_PER_BOOK

\* amount > 15.00
RefundTooLarge(amount) == amount > MAX_FEE_PER_BOOK

\* the slip of leaving the try out: the exception reaches the caller
refund_late_fee_payment_NoTry(transaction_id, amount, answer) ==
    LET refused(message) ==
            [NoResult EXCEPT !.op = "refund",
                             !.query = <<transaction_id, amount>>,
                             !.message = message]
        call == [transaction_id |-> transaction_id, amount |-> amount]
    IN  IF Len(transaction_id) = 0 \/ ~startswith(transaction_id, TxnPrefix)
        THEN refused("Invalid transaction ID.")
        ELSE IF amount <= 0
        THEN refused("Refund amount must be greater than 0.")
        ELSE IF RefundTooLarge(amount)
        THEN refused("Refund amount exceeds maximum late fee.")
        ELSE IF answer.raises
        THEN [refused("raise") EXCEPT !.calls = <<call>>]
        ELSE IF answer.success
        THEN [refused("{message}") EXCEPT !.success = TRUE,
                                          !.text = answer.message,
                                          !.calls = <<call>>]
        ELSE [refused("Refund failed: {message}")
                  EXCEPT !.text = answer.message, !.calls = <<call>>]

\* what the call returns, with the calls it made to the adapter
refund_late_fee_payment(transaction_id, amount, answer) ==
    LET refused(message) ==
            [NoResult EXCEPT !.op = "refund",
                             !.query = <<transaction_id, amount>>,
                             !.message = message]
        call == [transaction_id |-> transaction_id, amount |-> amount]
    IN  IF Len(transaction_id) = 0 \/ ~startswith(transaction_id, TxnPrefix)
        THEN refused("Invalid transaction ID.")
        ELSE IF amount <= 0
        THEN refused("Refund amount must be greater than 0.")
        ELSE IF RefundTooLarge(amount)
        THEN refused("Refund amount exceeds maximum late fee.")
        ELSE IF answer.raises
        THEN [refused("Refund processing error: {e}")
                  EXCEPT !.text = answer.message, !.calls = <<call>>]
        ELSE IF answer.success
        THEN [refused("{message}") EXCEPT !.success = TRUE,
                                          !.text = answer.message,
                                          !.calls = <<call>>]
        ELSE [refused("Refund failed: {message}")
                  EXCEPT !.text = answer.message, !.calls = <<call>>]

Refund(transaction_id, amount, answer) ==
    /\ result' = refund_late_fee_payment(transaction_id, amount, answer)
    /\ UNCHANGED <<books, borrow_records, now>>

----------------------------------------------------------------------------
(* get_patron_status_report *)

\* the entry of borrowing_history built for one returned record

HistoryEntry(bks, recs, t, patron_id, record) ==
    LET fee_details ==
            calculate_late_fee_for_book(bks, recs, t, patron_id, record.book_id)
    IN  [book_id      |-> record.book_id,
         title        |-> record.title,
         due_date     |-> strftime_date(record.due_date),
         return_date  |-> strftime_date(record.return_date),
         days_overdue |-> fee_details.days_overdue,
         fee_amount   |-> fee_details.fee_amount]

\* the entry of currently_borrowed_books built for one open record
CurrentEntry(bks, recs, t, patron_id, record) ==
    LET fee_details ==
            calculate_late_fee_for_book(bks, recs, t, patron_id, record.book_id)
    IN  [book_id            |-> record.book_id,
         title              |-> record.title,
         due_date           |-> strftime_date(record.due_date),
         current_fee_amount |-> fee_details.fee_amount]

\* fee_total after the loop over the first n records of the list
RECURSIVE FeeTotal(_, _, _, _, _, _)
FeeTotal(bks, recs, t, patron_id, borrowed_records, n) ==
    IF n = 0 THEN 0
    ELSE FeeTotal(bks, recs, t, patron_id, borrowed_records, n - 1)
         + calculate_late_fee_for_book(bks, recs, t, patron_id,
                                       borrowed_records[n].book_id).fee_amount

\* The dict returned; keys is the set of its keys, and a key that is not in
\* it has the value of an empty report.
get_patron_status_report(bks, recs, t, patron_id) ==
    IF InvalidPatronId(patron_id)
    THEN [keys                     |-> {"error"},
          error                    |-> "Invalid patron ID format.",
          patron_id                |-> <<>>,
          currently_borrowed_count |-> 0,
          total_late_fees_owed     |-> 0,
          currently_borrowed_books |-> <<>>,
          borrowing_history        |-> <<>>]
    ELSE
    LET num_borrowed == get_patron_borrow_count(recs, patron_id)
        borrowed_records == get_patron_borrowed_books(bks, recs, patron_id, t)
        IsOpen(record) == record.return_date = None
        IsClosed(record) == record.return_date # None
        open == SelectSeq(borrowed_records, IsOpen)
        closed == SelectSeq(borrowed_records, IsClosed)
    IN  [keys                     |-> {"patron_id", "currently_borrowed_count",
                                       "total_late_fees_owed",
                                       "currently_borrowed_books",
                                       "borrowing_history"},
         error                    |-> "",
         patron_id                |-> patron_id,
         currently_borrowed_count |-> num_borrowed,
         total_late_fees_owed     |->
             round2(FeeTotal(bks, recs, t, patron_id, borrowed_records,
                             Len(borrowed_records))),
         currently_borrowed_books |->
             [k \in 1..Len(open) |->
                 CurrentEntry(bks, recs, t, patron_id, open[k])],
         borrowing_history        |->
             [k \in 1..Len(closed) |->
                 HistoryEntry(bks, recs, t, patron_id, closed[k])]]

\* accessor calls the report makes: get_patron_borrow_count,
\* get_patron_borrowed_books, and those of one fee calculation per record
RECURSIVE FeeReadsTotal(_, _, _, _, _, _)
FeeReadsTotal(bks, recs, t, patron_id, borrowed_records, n) ==
    IF n = 0 THEN 0
    ELSE FeeReadsTotal(bks, recs, t, patron_id, borrowed_records, n - 1)
         + FeeReads(bks, recs, t, patron_id, borrowed_records[n].book_id)

StatusReads(bks, recs, t, patron_id) ==
    IF InvalidPatronId(patron_id) THEN 0
    ELSE LET borrowed_records == get_patron_borrowed_books(bks, recs, patron_id, t)
         IN  2 + FeeReadsTotal(bks, recs, t, patron_id, borrowed_records,
                               Len(borrowed_records))

StatusReport(patron_id) ==
    /\ result' = [NoResult EXCEPT
                     !.op = "status",
                     !.patron = patron_id,
                     !.report = <<get_patron_status_report(books, borrow_records,
                                                          now, patron_id)>>,
                     !.reads = StatusReads(books, borrow_records, now, patron_id)]
    /\ UNCHANGED <<books, borrow_records, now>>

----------------------------------------------------------------------------
(* Time passes between two calls *)

PassTime(dt) ==
    /\ now' = now + dt
    /\ UNCHANGED <<books, borrow_records, result>>

----------------------------------------------------------------------------
(* Inputs *)

Patron1 == <<"1", "2", "3", "4", "5", "6">>
Patron2 == <<"0", "0", "0", "0", "0", "7">>
ShortPatron == <<"1", "2">>

ISBN1 == Rep("9", IsbnLen)
ISBN2 == Rep("7", IsbnLen)

\* add_book calls: two books; a repeated call is refused for its ISBN
AddRequests ==
    { <<<<"G">>, <<"F">>, ISBN1, 2>>,
      <<<<" ", "m", " ">>, <<"H">>, ISBN2, 1>> }

\* borrow and return calls of Spec: two patrons, two books
LoanRequests == {<<Patron1, 1>>, <<Patron1, 2>>, <<Patron2, 1>>}

\* borrow and return calls of LimitSpec: one patron and a malformed id, the
\* two books and a book id that is never assigned
LimitRequests ==
    {<<Patron1, 1>>, <<Patron1, 2>>, <<Patron1, MaxBooks + 1>>,
     <<ShortPatron, MaxBooks + 1>>}

\* a step long enough to make an open loan overdue
ClockSteps == {timedelta_days(LoanDays + 1)}

\* the bounds, as a condition on the state a step leads to
Bounded ==
    /\ Len(books') <= MaxBooks
    /\ Len(borrow_records') <= MaxRecords
    /\ \A i \in 1..Len(books') :
          books'[i].available_copies <= books'[i].total_copies + MaxSurplus
    /\ now' <= MaxDay * TicksPerDay

----------------------------------------------------------------------------
(* The sequential system: init_database(), then any sequence of calls *)

Init ==
    /\ books = <<>>
    /\ borrow_records = <<>>
    /\ now = 0
    /\ result = NoResult

DoAddBook ==
    /\ \E r \in AddRequests : AddBook(r[1], r[2], r[3], r[4], TRUE)
    /\ Bounded

DoBorrow ==
    /\ \E q \in LoanRequests : Borrow(q[1], q[2], TRUE, TRUE)
    /\ Bounded

DoReturn ==
    /\ \E q \in LoanRequests : Return(q[1], q[2], TRUE, TRUE)
    /\ Bounded

DoPassTime ==
    /\ \E dt \in ClockSteps : PassTime(dt)
    /\ Bounded

Next ==
    \/ DoAddBook
    \/ DoBorrow
    \/ DoReturn
    \/ DoPassTime

Spec == Init /\ [][Next]_vars

----------------------------------------------------------------------------
(* The same system once two books are in the catalog, with one patron and  *)
(* enough copies to reach the borrowing limit; no time passes.             *)

LimitCatalog ==
    insert_book(insert_book(<<>>, <<"G">>, <<"F">>, ISBN1, BorrowLimit, BorrowLimit),
                <<"m">>, <<"H">>, ISBN2, 1, 1)

LimitInit ==
    /\ books = LimitCatalog
    /\ borrow_records = <<>>
    /\ now = 0
    /\ result = NoResult

\* the bounds of LimitSpec: the copies bound the open records
LimitBounded ==
    /\ Cardinality({i \in 1..Len(borrow_records') :
                        borrow_records'[i].return_date # NULL}) <= MaxReturned
    /\ \A i \in 1..Len(books') :
          books'[i].available_copies <= books'[i].total_copies

LimitBorrow ==
    /\ \E q \in LimitRequests : Borrow(q[1], q[2], TRUE, TRUE)
    /\ LimitBounded

LimitReturn ==
    /\ \E q \in LimitRequests : Return(q[1], q[2], TRUE, TRUE)
    /\ LimitBounded

LimitNext ==
    \/ LimitBorrow
    \/ LimitReturn

LimitSpec == LimitInit /\ [][LimitNext]_vars

----------------------------------------------------------------------------
(* The fee calculation on its own: one book, one loan of Patron1 taken at  *)
(* any time of the first two days, open or returned at any later time, and *)
(* the fee asked for at the return time or later.                          *)

FeeTicks == 0..(MaxFeeDay * TicksPerDay - 1)

FeeCatalog == insert_book(<<>>, <<"G">>, <<"F">>, ISBN1, 1, 1)

FeeInit ==
    \E t0 \in 0..(2 * TicksPerDay - 1), ref \in FeeTicks, open \in BOOLEAN :
       LET lent == insert_borrow_record(<<>>, Patron1, 1, t0, DueDate(t0))
       IN  /\ t0 <= ref
           /\ borrow_records =
                 IF open THEN lent
                 ELSE update_borrow_record_return_date(lent, Patron1, 1, ref)
           /\ books = IF open THEN update_book_availability(FeeCatalog, 1, -1)
                      ELSE FeeCatalog
           /\ now \in IF open THEN {ref} ELSE {ref, MaxFeeDay * TicksPerDay - 1}
           /\ result = NoResult

FeeRequests == {<<Patron1, 1>>}

FeeCalculate == \E q \in FeeRequests : CalculateLateFee(q[1], q[2])

FeeNext == FeeCalculate

FeeSpec == FeeInit /\ [][FeeNext]_vars

----------------------------------------------------------------------------
(* The read-only entry points beside the lending workflow: two books are   *)
(* in the catalog, two patrons borrow and return, time passes, and the     *)
(* status report, the fee, a payment or a search is asked for at any point. *)

ReportCatalog ==
    insert_book(insert_book(<<>>, <<"G">>, <<"F">>, ISBN1, 2, 2),
                <<"m">>, <<"H">>, ISBN2, 1, 1)

\* the patron ids a report is asked for: two patrons and a malformed id
ReportPatrons == {Patron1, Patron2, ShortPatron}

\* borrow and return calls of ReportSpec: each patron asks for one book
ReportRequests == {<<Patron1, 1>>, <<Patron2, 2>>}

ReportInit ==
    /\ books = ReportCatalog
    /\ borrow_records = <<>>
    /\ now = 0
    /\ result = NoResult

\* the bounds of ReportSpec; the report, the fee and the payment do not read
\* available_copies, and the steps that raise it above total_copies are
\* left to Spec
ReportBounded ==
    /\ Len(borrow_records') <= MaxRecords
    /\ \A i \in 1..Len(books') :
          books'[i].available_copies <= books'[i].total_copies
    /\ now' <= MaxDay * TicksPerDay

ReportBorrow ==
    /\ \E q \in ReportRequests : Borrow(q[1], q[2], TRUE, TRUE)
    /\ ReportBounded

ReportReturn ==
    /\ \E q \in ReportRequests : Return(q[1], q[2], TRUE, TRUE)
    /\ ReportBounded

ReportPassTime ==
    /\ \E dt \in ClockSteps : PassTime(dt)
    /\ ReportBounded

ReportStatus == \E p \in ReportPatrons : StatusReport(p)

\* fee and payment calls: the loans, a book the patron never asks for, and a
\* malformed id
FeeCalls == ReportRequests \cup {<<Patron1, 2>>, <<ShortPatron, 1>>}

\* what the payment adapter can do when called
GatewayAnswers ==
    { [raises |-> FALSE, success |-> TRUE,
       transaction_id |-> "txn_1", message |-> "ok"],
      [raises |-> FALSE, success |-> FALSE,
       transaction_id |-> "txn_2", message |-> "declined"],
      [raises |-> TRUE, success |-> FALSE,
       transaction_id |-> "", message |-> "timeout"] }

\* search calls: a blank term, a term in another case than the title, and a
\* field that is not valid
ReportQueries ==
    { <<<<" ">>, <<"a", "u", "t", "h", "o", "r">>>>,
      <<<<"M">>, <<"T", "i", "t", "l", "e">>>>,
      <<<<"G">>, <<"g", "e", "n", "r", "e">>>> }

ReportLateFee == \E q \in FeeCalls : CalculateLateFee(q[1], q[2])

ReportPay ==
    \E q \in FeeCalls, answer \in GatewayAnswers : PayLateFees(q[1], q[2], answer)

ReportSearch == \E query \in ReportQueries : Search(query[1], query[2])

ReportNext ==
    \/ ReportBorrow
    \/ ReportReturn
    \/ ReportPassTime
    \/ ReportStatus
    \/ ReportLateFee
    \/ ReportPay
    \/ ReportSearch

ReportSpec == ReportInit /\ [][ReportNext]_vars

----------------------------------------------------------------------------
(* The catalog on its own: add_book with every kind of request, and search *)

ISBN3 == Rep("1", IsbnLen)
ISBNa == Rep("a", IsbnLen)
ISBNA == Rep("A", IsbnLen)
ShortISBN == Rep("9", IsbnLen - 1)

Title200 == Rep("x", MaxTitleLen)
Title201 == Rep("x", MaxTitleLen + 1)
Author100 == Rep("k", MaxAuthorLen)
Author101 == Rep("k", MaxAuthorLen + 1)

\* add_book calls that pass every check on an empty catalog: a title that
\* is stripped, the longest title and author, ISBNs that differ in case
\* only, two books of one title
GoodAdds ==
    { <<<<"G", "o">>, <<"F", "a">>, ISBN1, 2>>,
      <<<<" ", "m", " ">>, <<"H">>, ISBN2, 1>>,
      <<<<" ">> \o Title200 \o <<" ">>, Author100 \o <<" ">>, ISBNa, 1>>,
      <<<<"g", "o">>, <<"f", "A">>, ISBNA, 1>>,
      <<<<"G", "o">>, <<"H">>, ISBN3, 3>> }

\* add_book calls that fail a check, most of them several checks
BadAdds ==
    { <<<<" ">>, <<>>, ShortISBN, 0>>,
      <<Title201, Author101, ShortISBN, 0>>,
      <<Title200, <<"\t">>, ShortISBN, 0>>,
      <<<<"G">>, Author101, ShortISBN, 0>>,
      <<<<"G">>, Author100, ShortISBN, 0>>,
      <<<<"G">>, <<"F">>, ISBN1 \o <<"9">>, 1>>,
      <<<<"G">>, <<"F">>, ISBN1, 0>>,
      <<<<"G">>, <<"F">>, ISBN1, -1>>,
      <<<<"Z">>, <<"F">>, ISBN1, 1>> }

CatalogRequests == GoodAdds \cup BadAdds

Title == <<"t", "i", "t", "l", "e">>
Author == <<"a", "u", "t", "h", "o", "r">>
Isbn == <<"i", "s", "b", "n">>

\* search calls, as <<search_term, search_type>>
CatalogQueries ==
    { <<<<>>, Title>>,
      <<<<" ", "\t">>, <<"I", "S", "B", "N">>>>,
      <<<<" ">>, <<"g", "e", "n", "r", "e">>>>,
      <<<<"G", "O">>, <<"T", "i", "t", "l", "e">>>>,
      <<<<" ", "o", " ">>, Title>>,
      <<<<"x">>, <<"T", "I", "T", "L", "E">>>>,
      <<<<"f">>, <<"A", "U", "T", "H", "O", "R">>>>,
      <<<<" ">> \o ISBNA \o <<" ">>, Isbn>>,
      <<ShortISBN, Isbn>>,
      <<<<"G">>, <<" ">> \o Title>>,
      <<<<"G">>, <<>>>> }

CatalogInit ==
    /\ books = <<>>
    /\ borrow_records = <<>>
    /\ now = 0
    /\ result = NoResult

CatalogAddBook ==
    /\ \E r \in CatalogRequests : AddBook(r[1], r[2], r[3], r[4], TRUE)
    /\ Len(books') <= MaxBooks

CatalogSearch == \E query \in CatalogQueries : Search(query[1], query[2])

CatalogNext ==
    \/ CatalogAddBook
    \/ CatalogSearch

CatalogSpec == CatalogInit /\ [][CatalogNext]_vars

----------------------------------------------------------------------------
(* The payment entry points on their own: Patron1 has one loan of the one  *)
(* book, taken at tick 0 and still open on the day the calls are made.     *)

\* the days a payment is asked on: the loan is not due, due today, and 1,
\* 8 and 22 days overdue
PaymentDays == {0, LoanDays, LoanDays + 1, LoanDays + 8, LoanDays + 22}

PaymentInit ==
    /\ books = update_book_availability(FeeCatalog, 1, -1)
    /\ borrow_records = insert_borrow_record(<<>>, Patron1, 1, 0, DueDate(0))
    /\ now \in {timedelta_days(d) : d \in PaymentDays}
    /\ result = NoResult

\* payment calls: the loan, a patron without a loan, a book that does not
\* exist, a malformed id
PaymentCalls ==
    {<<Patron1, 1>>, <<Patron2, 1>>, <<Patron1, MaxBooks + 1>>, <<ShortPatron, 1>>}

\* refund calls: transaction ids with, without and with only the prefix,
\* and amounts around 0.00 and 15.00
RefundTxns ==
    { <<"t", "x", "n", "_", "1">>, TxnPrefix, <<"T", "X", "N", "_", "1">>,
      <<"x", "t", "x", "n", "_">>, <<"t", "x", "n">>, <<>> }

RefundAmounts == {-500, 0, 10, 500, MAX_FEE_PER_BOOK, MAX_FEE_PER_BOOK + 10}

\* what the adapter's refund_payment can do when called
RefundAnswers ==
    { [raises |-> FALSE, success |-> TRUE, message |-> "refunded"],
      [raises |-> FALSE, success |-> FALSE, message |-> "unknown transaction"],
      [raises |-> TRUE, success |-> FALSE, message |-> "timeout"] }

PaymentPay ==
    \E q \in PaymentCalls, answer \in GatewayAnswers :
        PayLateFees(q[1], q[2], answer)

PaymentRefund ==
    \E t \in RefundTxns, amount \in RefundAmounts, answer \in RefundAnswers :
        Refund(t, amount, answer)

PaymentNext ==
    \/ PaymentPay
    \/ PaymentRefund

PaymentSpec == PaymentInit /\ [][PaymentNext]_vars

----------------------------------------------------------------------------
(* FaultSpec: borrow and return on the catalog of ReportSpec, where each   *)
(* write of database.py commits and returns True, or raises inside its try *)
(* block, writes nothing and returns False                                 *)

\* the bounds of FaultSpec: those of ReportSpec, and the clock, which every
\* borrow that reaches its insert advances, stops after a few such calls
FaultBounded ==
    /\ ReportBounded
    /\ now' <= MaxRecords + 1

FaultBorrow ==
    /\ \E q \in ReportRequests, insertOK \in BOOLEAN, updateOK \in BOOLEAN :
          Borrow(q[1], q[2], insertOK, updateOK)
    /\ FaultBounded

FaultReturn ==
    /\ \E q \in ReportRequests, setOK \in BOOLEAN, updateOK \in BOOLEAN :
          Return(q[1], q[2], setOK, updateOK)
    /\ FaultBounded

FaultNext ==
    \/ FaultBorrow
    \/ FaultReturn

FaultSpec == ReportInit /\ [][FaultNext]_vars

----------------------------------------------------------------------------
(* RaceSpec: two callers run borrow_book_by_patron at once on the catalog  *)
(* of ReportSpec.  Every accessor of database.py opens its own connection  *)
(* and commits before it returns, and borrow_book_by_patron holds no lock  *)
(* and no transaction across them: a call of an accessor is one atomic     *)
(* step, and the steps of the two callers interleave freely.               *)

Callers == {1, 2}

\* the frame of a call: pc names the accessor the call is about to call
NoFrame ==
    [pc               |-> "idle",
     patron_id        |-> <<>>,
     book_id          |-> 0,
     book             |-> <<>>,   \* book = get_book_by_id(book_id)
     current_borrowed |-> 0,      \* get_patron_borrow_count(patron_id)
     success          |-> FALSE,
     message          |-> ""]

RaceRequests == {<<Patron1, 2>>, <<Patron2, 2>>, <<ShortPatron, 2>>}

RaceInit ==
    /\ books = ReportCatalog
    /\ borrow_records = <<>>
    /\ now = 0
    /\ result = [c \in Callers |-> NoFrame]

\* return success, message
RaceReturn(c, success, message) ==
    [result EXCEPT ![c].pc = "done", ![c].success = success,
                   ![c].message = message]

\* the call, up to its first accessor: the patron id is validated
RaceCall(c, patron_id, book_id) ==
    /\ result[c].pc \in {"idle", "done"}
    /\ result' =
          IF InvalidPatronId(patron_id)
          THEN [result EXCEPT ![c] =
                   [NoFrame EXCEPT
                       !.pc = "done", !.patron_id = patron_id,
                       !.book_id = book_id,
                       !.message = "Invalid patron ID. Must be exactly 6 digits."]]
          ELSE [result EXCEPT ![c] =
                   [NoFrame EXCEPT
                       !.pc = "get_book_by_id", !.patron_id = patron_id,
                       !.book_id = book_id]]
    /\ UNCHANGED <<books, borrow_records, now>>

\* book = get_book_by_id(book_id), and the two tests of book
RaceGetBook(c) ==
    /\ result[c].pc = "get_book_by_id"
    /\ LET book == get_book_by_id(books, result[c].book_id)
       IN  result' =
             IF book = <<>> THEN RaceReturn(c, FALSE, "Book not found.")
             ELSE IF NotAvailable(book[1])
             THEN RaceReturn(c, FALSE, "This book is currently not available.")
             ELSE [result EXCEPT ![c].pc = "get_patron_borrow_count",
                                 ![c].book = book]
    /\ UNCHANGED <<books, borrow_records, now>>

\* current_borrowed = get_patron_borrow_count(patron_id), and its test
RaceGetCount(c) ==
    /\ result[c].pc = "get_patron_borrow_count"
    /\ LET current_borrowed ==
               get_patron_borrow_count(borrow_records, result[c].patron_id)
       IN  result' =
             IF LimitReached(current_borrowed)
             THEN RaceReturn(c, FALSE,
                      "You have reached the maximum borrowing limit of 5 books.")
             ELSE [result EXCEPT ![c].pc = "insert_borrow_record",
                                 ![c].current_borrowed = current_borrowed]
    /\ UNCHANGED <<books, borrow_records, now>>

\* the insert and the decrement as one step, as under one transaction
RaceInsert_Atomic(c) ==
    /\ result[c].pc = "insert_borrow_record"
    /\ now' = BorrowClock(now)
    /\ borrow_records' =
          insert_borrow_record(borrow_records, result[c].patron_id,
                               result[c].book_id, now', DueDate(now'))
    /\ books' = update_book_availability(books, result[c].book_id, -1)
    /\ result' = RaceReturn(c, TRUE,
                            "Successfully borrowed {title}. Due date: {due}.")

\* borrow_date = datetime.now(), and insert_borrow_record(...)
RaceInsert(c) ==
    /\ result[c].pc = "insert_borrow_record"
    /\ now' = BorrowClock(now)
    /\ borrow_records' =
          insert_borrow_record(borrow_records, result[c].patron_id,
                               result[c].book_id, now', DueDate(now'))
    /\ result' = [result EXCEPT ![c].pc = "update_book_availability"]
    /\ UNCHANGED books

\* update_book_availability(book_id, -1), and the return
RaceUpdate(c) ==
    /\ result[c].pc = "update_book_availability"
    /\ books' = update_book_availability(books, result[c].book_id, -1)
    /\ result' = RaceReturn(c, TRUE,
                            "Successfully borrowed {title}. Due date: {due}.")
    /\ UNCHANGED <<borrow_records, now>>

RaceBounded == Len(borrow_records') <= MaxRecords

RaceNext ==
    \/ \E c \in Callers, q \in RaceRequests : RaceCall(c, q[1], q[2])
    \/ \E c \in Callers : RaceGetBook(c)
    \/ \E c \in Callers : RaceGetCount(c)
    \/ \E c \in Callers : RaceInsert(c) /\ RaceBounded
    \/ \E c \in Callers : RaceUpdate(c)

RaceSpec == RaceInit /\ [][RaceNext]_vars

----------------------------------------------------------------------------
(* EntrySpec: the five entry points that take a patron id, called with     *)
(* well-formed and malformed ids on the catalog of ReportSpec               *)

LongPatron == <<"1", "2", "3", "4", "5", "6", "7">>
LetterPatron == <<"1", "2", "3", "4", "5", "a">>
EmptyPatron == <<>>
\* six characters, the last one a superscript two: str.isdigit() holds of it
SuperscriptPatron == <<"1", "2", "3", "4", "5", "sup2">>

EntryPatrons ==
    {Patron1, SuperscriptPatron, ShortPatron, LongPatron, LetterPatron,
     EmptyPatron}

\* the book the calls are about
EntryBooks == {1}

EntryBorrow ==
    /\ \E p \in EntryPatrons, b \in EntryBooks : Borrow(p, b, TRUE, TRUE)
    /\ ReportBounded

EntryReturn ==
    /\ \E p \in EntryPatrons, b \in EntryBooks : Return(p, b, TRUE, TRUE)
    /\ ReportBounded

\* the books a fee is asked for: the book that is lent, a book that is
\* never lent, and a book id that is never assigned
EntryFeeBooks == {1, 2, MaxBooks + 1}

EntryLateFee ==
    \E p \in EntryPatrons, b \in EntryFeeBooks : CalculateLateFee(p, b)

EntryStatus == \E p \in EntryPatrons : StatusReport(p)

EntryPay ==
    \E p \in EntryPatrons, b \in EntryBooks, answer \in GatewayAnswers :
        PayLateFees(p, b, answer)

EntryNext ==
    \/ EntryBorrow
    \/ EntryReturn
    \/ ReportPassTime
    \/ EntryLateFee
    \/ EntryStatus
    \/ EntryPay

EntrySpec == ReportInit /\ [][EntryNext]_vars

----------------------------------------------------------------------------
(* Properties *)

\* A step of borrow and a step of return, for a property of the steps.  The
\* first three conjuncts follow from the fourth; they spare its evaluation
\* on the steps of other calls.
BorrowStep(patron_id, book_id) ==
    /\ result'.op = "borrow"
    /\ result'.patron = patron_id
    /\ result'.book = book_id
    /\ Borrow(patron_id, book_id, TRUE, TRUE)

ReturnStep(patron_id, book_id) ==
    /\ result'.op = "return"
    /\ result'.patron = patron_id
    /\ result'.book = book_id
    /\ Return(patron_id, book_id, TRUE, TRUE)

\* C1: for every book, 0 <= available_copies <= total_copies in every state
\* reachable by add_book, borrow and return, repeated returns of the same
\* book by the same patron included.
C1_AvailableWithinTotal ==
    \A i \in 1..Len(books) :
        /\ 0 <= books[i].available_copies
        /\ books[i].available_copies <= books[i].total_copies

\* C2: a return by a patron who has no open record (return_date NULL) for
\* the book, closed records or not, fails with the "no active borrowing
\* record" message and changes no borrow record and no available count.
C2_ReturnNeedsOpenRecord ==
    [][\A q \in LoanRequests :
          ( /\ ReturnStep(q[1], q[2])
            /\ ~\E i \in 1..Len(borrow_records) :
                    /\ borrow_records[i].patron_id = q[1]
                    /\ borrow_records[i].book_id = q[2]
                    /\ borrow_records[i].return_date = NULL )
          => /\ ~result'.success
             /\ result'.message =
                    "No active borrowing record found for this book and patron."
             /\ borrow_records' = borrow_records
             /\ books' = books]_vars

\* C3: each (patron, book) pair has at most one open borrow record in every
\* reachable state.
C3_OneOpenRecordPerPair ==
    \A i, j \in 1..Len(borrow_records) :
        ( /\ borrow_records[i].patron_id = borrow_records[j].patron_id
          /\ borrow_records[i].book_id = borrow_records[j].book_id
          /\ borrow_records[i].return_date = NULL
          /\ borrow_records[j].return_date = NULL )
        => i = j

\* the open records of a patron, counted from the table
OpenCount(recs, patron_id) ==
    Cardinality({i \in 1..Len(recs) :
                    recs[i].patron_id = patron_id /\ recs[i].return_date = NULL})

\* C4: no patron ever has more than 5 open records, and a borrow by a
\* patron who has 5 open records fails with the "maximum borrowing limit"
\* message whichever existing book with copies available is asked for.
C4_BorrowLimit ==
    [][ /\ \A i \in 1..Len(borrow_records') :
              OpenCount(borrow_records', borrow_records'[i].patron_id) <= 5
        /\ \A q \in LimitRequests :
              ( /\ BorrowStep(q[1], q[2])
                /\ OpenCount(borrow_records, q[1]) = 5
                /\ q[2] \in 1..Len(books)
                /\ books[q[2]].available_copies > 0 )
              => /\ ~result'.success
                 /\ result'.message =
                        "You have reached the maximum borrowing limit of 5 books."
                 /\ borrow_records' = borrow_records
                 /\ books' = books ]_vars

\* C4 witness: a borrow was refused for the limit while the patron had 5
\* open records and the book asked for had a copy available.
C4_Witness ==
    /\ result.op = "borrow"
    /\ result.message = "You have reached the maximum borrowing limit of 5 books."
    /\ OpenCount(borrow_records, result.patron) = 5
    /\ books[result.book].available_copies > 0

\* the fee the specification owes for d days overdue, in mills
SpecFee(d) ==
    IF d <= 0 THEN 0
    ELSE LET tiered == 500 * (IF d < 7 THEN d ELSE 7)
                       + 1000 * (IF d > 7 THEN d - 7 ELSE 0)
         IN  IF tiered < 15000 THEN tiered ELSE 15000

\* C5: the fee reported for a loan that was returned late, by the fee
\* calculator and by the loan's history entry of the status report, is the
\* fee owed on the return day in every later state.
C5_ClosedFeeFrozen ==
    \A i \in 1..Len(borrow_records) :
        LET row == borrow_records[i]
            listed == get_patron_borrowed_books(books, borrow_records,
                                                row.patron_id, now)
        IN  (row.return_date # NULL /\ row.return_date[1] > row.due_date[1])
            => /\ calculate_late_fee_for_book(books, borrow_records, now,
                        row.patron_id, row.book_id).fee_amount
                    = SpecFee(row.return_date[1] - row.due_date[1])
               /\ \A k \in 1..Len(listed) :
                     listed[k].borrow_date = fromisoformat(row.borrow_date)
                     => HistoryEntry(books, borrow_records, now,
                                     row.patron_id, listed[k]).fee_amount
                            = SpecFee(row.return_date[1] - row.due_date[1])

\* C6: a successful borrow lowers the book's available_copies by exactly 1,
\* a successful return raises it by exactly 1, and a return that directly
\* follows a successful borrow by the same patron of the same book succeeds,
\* so the pair restores the count.
C6_BorrowReturnRoundTrip ==
    [][\A q \in LoanRequests :
          /\ (BorrowStep(q[1], q[2]) /\ result'.success)
             => books'[q[2]].available_copies = books[q[2]].available_copies - 1
          /\ (ReturnStep(q[1], q[2]) /\ result'.success)
             => books'[q[2]].available_copies = books[q[2]].available_copies + 1
          /\ ( /\ ReturnStep(q[1], q[2])
               /\ result.op = "borrow" /\ result.success
               /\ result.patron = q[1] /\ result.book = q[2] )
             => /\ result'.success
                /\ books'[q[2]].available_copies - 1
                       = books[q[2]].available_copies ]_vars

\* C6 witness: a return succeeded on a loan in the very tick it was taken.
C6_Witness ==
    /\ result.op = "return"
    /\ result.success
    /\ \E i \in 1..Len(borrow_records) :
          /\ borrow_records[i].patron_id = result.patron
          /\ borrow_records[i].book_id = result.book
          /\ borrow_records[i].borrow_date = <<now \div TicksPerDay, now % TicksPerDay>>
          /\ borrow_records[i].return_date = borrow_records[i].borrow_date

\* C7: with d the difference in calendar days between the reference date
\* (now for an open loan, the return date for a closed one) and the due
\* date, the fee is 0.00 with 0 days overdue when d <= 0, and otherwise
\* min(0.50 * min(d, 7) + 1.00 * max(d - 7, 0), 15.00) with d days overdue;
\* 0, 1, 7, 8, 22 and 30 days give 0.00, 0.50, 3.50, 4.50, 15.00 and 15.00.
C7_TieredFee ==
    (result.op = "late_fee" /\ result.patron = Patron1 /\ result.book = 1)
    => LET row == borrow_records[1]
           ref_day == IF row.return_date = NULL
                      THEN now \div TicksPerDay
                      ELSE row.return_date[1]
           d == ref_day - row.due_date[1]
       IN  /\ result.fee = SpecFee(d)
           /\ result.days = (IF d <= 0 THEN 0 ELSE d)
           /\ result.fee <= 15000
           /\ d = 0 => result.fee = 0
           /\ d = 1 => result.fee = 500
           /\ d = 7 => result.fee = 3500
           /\ d = 8 => result.fee = 4500
           /\ d = 22 => result.fee = 15000
           /\ d = 30 => result.fee = 15000

\* C7 witness: the fee of a loan 22 days overdue was calculated.
C7_Witness ==
    /\ result.op = "late_fee"
    /\ result.days = 22
    /\ result.fee = 15000

\* C8: borrow tests, in this order, that the patron id is 6 digits, that the
\* book exists, that it has a copy available and that the patron has fewer
\* than 5 open records, and returns the message of the first test that
\* fails; it succeeds when none fails.
C8_BorrowCheckOrder ==
    [][\A q \in LimitRequests :
          BorrowStep(q[1], q[2])
          => IF ~(Len(q[1]) = 6 /\ \A k \in 1..Len(q[1]) : q[1][k] \in AsciiDigits)
             THEN result'.message = "Invalid patron ID. Must be exactly 6 digits."
             ELSE IF q[2] \notin 1..Len(books)
             THEN result'.message = "Book not found."
             ELSE IF ~(books[q[2]].available_copies > 0)
             THEN result'.message = "This book is currently not available."
             ELSE IF ~(OpenCount(borrow_records, q[1]) < 5)
             THEN result'.message =
                      "You have reached the maximum borrowing limit of 5 books."
             ELSE result'.success ]_vars

\* C8 witness: a patron with 5 open records asked for a book without a copy
\* available and was told that the book is not available.
C8_Witness ==
    /\ result.op = "borrow"
    /\ result.message = "This book is currently not available."
    /\ OpenCount(borrow_records, result.patron) = 5
    /\ books[result.book].available_copies = 0

\* C9: a successful borrow appends exactly one record, of its patron and
\* book, open, with the borrow date it read from the clock and a due date
\* 14 days later; so in every record the due date is the borrow date plus
\* 14 days.
C9_BorrowCreatesRecord ==
    [][ /\ \A q \in LoanRequests :
              (BorrowStep(q[1], q[2]) /\ result'.success)
              => /\ Len(borrow_records') = Len(borrow_records) + 1
                 /\ SubSeq(borrow_records', 1, Len(borrow_records)) = borrow_records
                 /\ LET new == borrow_records'[Len(borrow_records')]
                    IN  /\ new.patron_id = q[1]
                        /\ new.book_id = q[2]
                        /\ new.return_date = NULL
                        /\ new.borrow_date[1] * TicksPerDay + new.borrow_date[2] = now'
                        /\ new.due_date = <<new.borrow_date[1] + 14, new.borrow_date[2]>>
        /\ \A i \in 1..Len(borrow_records') :
              borrow_records'[i].due_date =
                  <<borrow_records'[i].borrow_date[1] + 14,
                    borrow_records'[i].borrow_date[2]>> ]_vars

\* C9 witness: a borrow has just succeeded and its record is the last one.
C9_Witness ==
    /\ result.op = "borrow"
    /\ result.success
    /\ Len(borrow_records) > 0
    /\ borrow_records[Len(borrow_records)].patron_id = result.patron
    /\ borrow_records[Len(borrow_records)].book_id = result.book
    /\ borrow_records[Len(borrow_records)].return_date = NULL
    /\ result.due = borrow_records[Len(borrow_records)].due_date[1]

\* C10: no step deletes a borrow record or changes any field of one but the
\* return date; a return date goes from NULL to the time of the return, and
\* once set it never changes again.
C10_RecordMutatedOnce ==
    [][ /\ Len(borrow_records') >= Len(borrow_records)
        /\ \A i \in 1..Len(borrow_records) :
              /\ borrow_records'[i] =
                     [borrow_records[i] EXCEPT
                         !.return_date = borrow_records'[i].return_date]
              /\ borrow_records[i].return_date # NULL
                 => borrow_records'[i].return_date = borrow_records[i].return_date
              /\ borrow_records[i].return_date = NULL
                 => borrow_records'[i].return_date \in
                        {NULL, <<now \div TicksPerDay, now % TicksPerDay>>} ]_vars

\* C10 witness: a patron returned a book a second time, on a later day than
\* the first, and the call succeeded.
C10_Witness ==
    /\ result.op = "return"
    /\ result.success
    /\ \A i \in 1..Len(borrow_records) :
          (borrow_records[i].patron_id = result.patron
              /\ borrow_records[i].book_id = result.book)
          => /\ borrow_records[i].return_date # NULL
             /\ borrow_records[i].return_date[1] < now \div TicksPerDay
    /\ books[result.book].available_copies > books[result.book].total_copies

\* a step of the status report
StatusStep(patron_id) ==
    /\ result'.op = "status"
    /\ result'.patron = patron_id
    /\ StatusReport(patron_id)

\* the rows of a patron in the table, open or returned
RowsOf(recs, patron_id, open) ==
    {i \in 1..Len(recs) :
        /\ recs[i].patron_id = patron_id
        /\ (recs[i].return_date = NULL) = open}

\* the fee of one row by its own dates: the due date against the return
\* date, or against today while the row is open
OwnFee(row, t) ==
    SpecFee((IF row.return_date = NULL THEN t \div TicksPerDay
                                       ELSE row.return_date[1])
            - row.due_date[1])

RECURSIVE SumOwnFees(_, _, _, _)
SumOwnFees(recs, t, patron_id, n) ==
    IF n = 0 THEN 0
    ELSE SumOwnFees(recs, t, patron_id, n - 1)
         + (IF recs[n].patron_id = patron_id THEN OwnFee(recs[n], t) ELSE 0)

\* C11: the total fee of a status report is the sum, over every record of
\* the patron, open or returned, of the fee of that record by its own due
\* date and its own reference date, also when the patron has several
\* records of one book.
C11_ReportTotalIsSumOfOwnFees ==
    [][\A p \in ReportPatrons :
          (StatusStep(p) /\ "error" \notin result'.report[1].keys)
          => result'.report[1].total_late_fees_owed
                 = SumOwnFees(borrow_records, now, p, Len(borrow_records))]_vars

\* C12: in a status report every record of the patron is in exactly one
\* list, currently_borrowed_books if its return date is NULL and
\* borrowing_history if it is set; no record of another patron is in either;
\* each list is in descending order of borrow date.
C12_ReportPartition ==
    [][\A p \in ReportPatrons :
          (StatusStep(p) /\ "error" \notin result'.report[1].keys)
          => LET report == result'.report[1]
                 Later(i, j) ==
                     /\ borrow_records[i].borrow_date # borrow_records[j].borrow_date
                     /\ TextLeq(borrow_records[j].borrow_date,
                                borrow_records[i].borrow_date)
                 Place(i, rows) == 1 + Cardinality({j \in rows : Later(j, i)})
                 open == RowsOf(borrow_records, p, TRUE)
                 closed == RowsOf(borrow_records, p, FALSE)
             IN  /\ Len(report.currently_borrowed_books) = Cardinality(open)
                 /\ Len(report.borrowing_history) = Cardinality(closed)
                 /\ \A i \in open :
                       LET e == report.currently_borrowed_books[Place(i, open)]
                       IN  /\ e.book_id = borrow_records[i].book_id
                           /\ e.title = books[borrow_records[i].book_id].title
                           /\ e.due_date = borrow_records[i].due_date[1]
                 /\ \A i \in closed :
                       LET e == report.borrowing_history[Place(i, closed)]
                       IN  /\ e.book_id = borrow_records[i].book_id
                           /\ e.title = books[borrow_records[i].book_id].title
                           /\ e.due_date = borrow_records[i].due_date[1]
                           /\ e.return_date = borrow_records[i].return_date[1]
      ]_vars

\* C12 witness: a report lists two returned loans of the patron, the one
\* borrowed later first.
C12_Witness ==
    /\ result.op = "status"
    /\ result.patron = Patron1
    /\ Len(result.report[1].borrowing_history) = 2
    /\ result.report[1].borrowing_history[1].due_date
           > result.report[1].borrowing_history[2].due_date

\* C13: the status report of a well-formed patron id without any record has
\* count 0, total fee 0.00 and two empty lists and no error, whatever other
\* patrons have borrowed or returned.
C13_EmptyReport ==
    [][\A p \in ReportPatrons :
          ( /\ StatusStep(p)
            /\ Len(p) = 6 /\ \A k \in 1..Len(p) : p[k] \in AsciiDigits
            /\ \A i \in 1..Len(borrow_records) : borrow_records[i].patron_id # p )
          => LET report == result'.report[1]
             IN  /\ "error" \notin report.keys
                 /\ report.patron_id = p
                 /\ report.currently_borrowed_count = 0
                 /\ report.total_late_fees_owed = 0
                 /\ report.currently_borrowed_books = <<>>
                 /\ report.borrowing_history = <<>>]_vars

\* C13 witness: a patron without records got an empty report while the
\* other patron has an open loan that is overdue and a returned one.
C13_Witness ==
    /\ result.op = "status"
    /\ result.patron = Patron2
    /\ "error" \notin result.report[1].keys
    /\ result.report[1].currently_borrowed_count = 0
    /\ \A i \in 1..Len(borrow_records) : borrow_records[i].patron_id = Patron1
    /\ \E i \in 1..Len(borrow_records) :
          /\ borrow_records[i].return_date = NULL
          /\ borrow_records[i].due_date[1] < now \div TicksPerDay
    /\ \E i \in 1..Len(borrow_records) : borrow_records[i].return_date # NULL

\* steps of the fee calculation, of a payment and of a search
LateFeeStep(patron_id, book_id) ==
    /\ result'.op = "late_fee"
    /\ result'.patron = patron_id
    /\ result'.book = book_id
    /\ CalculateLateFee(patron_id, book_id)

PayStep(patron_id, book_id, answer) ==
    /\ result'.op = "pay"
    /\ result'.patron = patron_id
    /\ result'.book = book_id
    /\ PayLateFees(patron_id, book_id, answer)

SearchStep(search_term, search_type) ==
    /\ result'.op = "search"
    /\ result'.query = <<search_term, search_type>>
    /\ Search(search_term, search_type)

\* C14: a status report, a fee calculation, a search and a payment, whatever
\* the adapter answers, leave every book and every borrow record as they
\* were; so the fee of every loan is the same after a successful payment as
\* before it.
C14_ReadOnlyCallsWriteNothing ==
    [][ /\ ( \/ \E p \in ReportPatrons : StatusStep(p)
             \/ \E q \in FeeCalls : LateFeeStep(q[1], q[2])
             \/ \E query \in ReportQueries : SearchStep(query[1], query[2])
             \/ \E q \in FeeCalls, answer \in GatewayAnswers :
                   PayStep(q[1], q[2], answer) )
           => /\ books' = books
              /\ borrow_records' = borrow_records
        /\ \A q \in FeeCalls, answer \in GatewayAnswers :
              (PayStep(q[1], q[2], answer) /\ result'.success)
              => \A c \in FeeCalls :
                    calculate_late_fee_for_book(books', borrow_records', now',
                                                c[1], c[2])
                    = calculate_late_fee_for_book(books, borrow_records, now,
                                                  c[1], c[2]) ]_vars

\* C14 witness: a payment of 0.50 succeeded and the loan is still open and
\* still owes 0.50.
C14_Witness ==
    /\ result.op = "pay"
    /\ result.success
    /\ result.calls[1].amount = 500
    /\ \E i \in 1..Len(borrow_records) :
          /\ borrow_records[i].patron_id = result.patron
          /\ borrow_records[i].book_id = result.book
          /\ borrow_records[i].return_date = NULL
    /\ calculate_late_fee_for_book(books, borrow_records, now,
                                   result.patron, result.book).fee_amount = 500

\* C20: a payment with a malformed patron id, or with a recomputed fee that
\* is not above 0, fails without a transaction id and without a call of the
\* adapter, with the "no late fees to pay" message in the second case; any
\* other payment calls the adapter exactly once, with the patron id and the
\* fee, and succeeds, with the adapter's transaction id, exactly when the
\* adapter reports success.
C20_PaymentCallsAdapterOnce ==
    [][\A q \in FeeCalls, answer \in GatewayAnswers :
          PayStep(q[1], q[2], answer)
          => LET fee == calculate_late_fee_for_book(books, borrow_records, now,
                                                    q[1], q[2]).fee_amount
                 wellFormed ==
                     Len(q[1]) = 6 /\ \A k \in 1..6 : q[1][k] \in AsciiDigits
                 accepted == ~answer.raises /\ answer.success
             IN  IF ~wellFormed
                 THEN /\ ~result'.success
                      /\ result'.txn = <<>>
                      /\ result'.calls = <<>>
                 ELSE IF fee <= 0
                 THEN /\ ~result'.success
                      /\ result'.message = "No late fees to pay for this book."
                      /\ result'.txn = <<>>
                      /\ result'.calls = <<>>
                 ELSE /\ Len(result'.calls) = 1
                      /\ result'.calls[1].patron_id = q[1]
                      /\ result'.calls[1].amount = fee
                      /\ result'.success = accepted
                      /\ result'.txn = (IF accepted
                                        THEN <<answer.transaction_id>> ELSE <<>>)
      ]_vars

\* C20 witness: the adapter was called once for a fee of 0.50 and declined,
\* and the payment failed without a transaction id.
C20_Witness ==
    /\ result.op = "pay"
    /\ ~result.success
    /\ result.text = "declined"
    /\ Len(result.calls) = 1
    /\ result.calls[1].amount = 500
    /\ result.txn = <<>>

\* a step of add_book
AddStep(title, author, isbn, total_copies) ==
    /\ result'.op = "add_book"
    /\ AddBook(title, author, isbn, total_copies, TRUE)

\* the characters left of s once the whitespace at both ends is taken off
Trimmed(s) ==
    LET inside == {i \in 1..Len(s) : s[i] \notin Whitespace}
    IN  IF inside = {} THEN <<>>
        ELSE SubSeq(s, CHOOSE i \in inside : \A j \in inside : i <= j,
                       CHOOSE i \in inside : \A j \in inside : j <= i)

\* C15: add_book tests, in this order, the title (not empty and at most 200
\* characters once trimmed), the author (not empty and at most 100 once
\* trimmed), the ISBN (13 characters), total_copies (a positive integer)
\* and that no book has the ISBN, and reports the first test that fails; 200
\* and 100 characters pass, 201 and 101 do not; a call that passes inserts
\* one book with available_copies = total_copies, and a call that fails
\* inserts none.
C15_AddBookCheckOrder ==
    [][\A r \in CatalogRequests :
          AddStep(r[1], r[2], r[3], r[4])
          => LET title == Trimmed(r[1])
                 author == Trimmed(r[2])
             IN  IF Len(title) = 0
                 THEN result'.message = "Title is required." /\ books' = books
                 ELSE IF Len(title) > 200
                 THEN /\ result'.message = "Title must be less than 200 characters."
                      /\ books' = books
                 ELSE IF Len(author) = 0
                 THEN result'.message = "Author is required." /\ books' = books
                 ELSE IF Len(author) > 100
                 THEN /\ result'.message = "Author must be less than 100 characters."
                      /\ books' = books
                 ELSE IF Len(r[3]) # 13
                 THEN /\ result'.message = "ISBN must be exactly 13 digits."
                      /\ books' = books
                 ELSE IF r[4] <= 0
                 THEN /\ result'.message = "Total copies must be a positive integer."
                      /\ books' = books
                 ELSE IF \E i \in 1..Len(books) : books[i].isbn = r[3]
                 THEN /\ result'.message = "A book with this ISBN already exists."
                      /\ books' = books
                 ELSE /\ result'.success
                      /\ books' = Append(books,
                                         [id               |-> Len(books) + 1,
                                          title            |-> title,
                                          author           |-> author,
                                          isbn             |-> r[3],
                                          total_copies     |-> r[4],
                                          available_copies |-> r[4]]) ]_vars

\* C15 witness: a book with a title of 200 characters and an author of 100
\* was added.
C15_Witness ==
    /\ result.op = "add_book"
    /\ result.success
    /\ Len(result.title) = 200
    /\ Len(books[Len(books)].title) = 200
    /\ Len(books[Len(books)].author) = 100
    /\ books[Len(books)].available_copies = books[Len(books)].total_copies

\* C16: no two books of the catalog have the same ISBN; an add_book with
\* the 13-character ISBN of a book of the catalog fails and leaves the
\* catalog as it was, with the duplicate-ISBN message when the request
\* passes the tests made before the lookup.
C16_IsbnUnique ==
    [][ /\ \A i, j \in 1..Len(books') :
              books'[i].isbn = books'[j].isbn => i = j
        /\ \A r \in CatalogRequests :
              ( /\ AddStep(r[1], r[2], r[3], r[4])
                /\ Len(r[3]) = 13
                /\ \E i \in 1..Len(books) : books[i].isbn = r[3] )
              => /\ ~result'.success
                 /\ books' = books
                 /\ ( /\ Len(Trimmed(r[1])) \in 1..200
                      /\ Len(Trimmed(r[2])) \in 1..100
                      /\ r[4] > 0 )
                    => result'.message = "A book with this ISBN already exists."
      ]_vars

\* C16 witness: an add_book was refused for its ISBN, which a book of
\* another title has.
C16_Witness ==
    /\ result.op = "add_book"
    /\ result.message = "A book with this ISBN already exists."
    /\ \E i \in 1..Len(books) : books[i].isbn = ISBN1 /\ books[i].title # <<"Z">>
    /\ Len(books) < MaxBooks

\* two characters that are equal up to their case
SameLetter(a, b) ==
    \/ a = b
    \/ \E k \in 1..Len(UpperCase) : {a, b} = {UpperCase[k], LowerCase[k]}

\* s is the field name, in any case
FieldIs(s, name) ==
    Len(s) = Len(name) /\ \A k \in 1..Len(name) : SameLetter(s[k], name[k])

ValidField(s) == FieldIs(s, Title) \/ FieldIs(s, Author) \/ FieldIs(s, Isbn)

\* s holds t, up to the case of the letters
HoldsFolded(s, t) ==
    \E d \in 0..(Len(s) - Len(t)) : \A k \in 1..Len(t) : SameLetter(s[d + k], t[k])

\* list holds the books of the set chosen, each once, by ascending title
ListsInTitleOrder(list, chosen) ==
    /\ Len(list) = Cardinality(chosen)
    /\ {list[k] : k \in 1..Len(list)} = {books[i] : i \in chosen}
    /\ \A j, k \in 1..Len(list) :
          j < k => ~BinaryLess(list[k].title, list[j].title)

\* the books a search asks for: by ISBN those whose ISBN is the trimmed
\* term, by title or author those that hold the term given
Asked(field, isbnTerm, textTerm) ==
    {i \in 1..Len(books) :
        IF FieldIs(field, Isbn) THEN books[i].isbn = isbnTerm
        ELSE IF FieldIs(field, Title) THEN HoldsFolded(books[i].title, textTerm)
        ELSE HoldsFolded(books[i].author, textTerm)}

\* C17: for a valid field and a term that is not blank, search returns, in
\* title order, exactly the books that match: by ISBN the books whose ISBN
\* is the trimmed term, case included; by title or author the books whose
\* title or author holds the term, as it was given, up to case.
C17_SearchMatchesTerm ==
    [][\A query \in CatalogQueries :
          ( /\ SearchStep(query[1], query[2])
            /\ ValidField(query[2])
            /\ Trimmed(query[1]) # <<>> )
          => ListsInTitleOrder(result'.list,
                               Asked(query[2], Trimmed(query[1]), query[1]))
      ]_vars

\* C17, amended: as C17, with the title or author holding the trimmed term.
C17_SearchMatchesTrimmedTerm ==
    [][\A query \in CatalogQueries :
          ( /\ SearchStep(query[1], query[2])
            /\ ValidField(query[2])
            /\ Trimmed(query[1]) # <<>> )
          => ListsInTitleOrder(result'.list,
                               Asked(query[2], Trimmed(query[1]),
                                     Trimmed(query[1])))
      ]_vars

\* C17 witness: a search by title for " o " returned the two books "Go"
\* and "go", in this order.
C17_Witness ==
    /\ result.op = "search"
    /\ result.query = <<<<" ", "o", " ">>, Title>>
    /\ Len(result.list) = 2
    /\ result.list[1].title = <<"G", "o">>
    /\ result.list[2].title = <<"g", "o">>

C19_InvalidFieldEmpty ==
    [][\A query \in CatalogQueries :
          SearchStep(query[1], query[2])
          => IF ValidField(query[2])
             THEN result'.reads = 1
             ELSE result'.list = <<>> /\ result'.reads = 0]_vars

\* C19 witness: a search with the field "genre" and a blank term returned
\* the empty list from a catalog that has books.
C19_Witness ==
    /\ result.op = "search"
    /\ result.query = <<<<" ">>, <<"g", "e", "n", "r", "e">>>>
    /\ result.list = <<>>
    /\ result.reads = 0
    /\ Len(books) > 0

\* a step of a refund
RefundStep(transaction_id, amount, answer) ==
    /\ result'.op = "refund"
    /\ result'.query = <<transaction_id, amount>>
    /\ Refund(transaction_id, amount, answer)

\* C21: when the payment adapter raises during a payment or a refund, the
\* call still returns: a failure, without a transaction id, whose message
\* is the processing-error message with the text of the adapter's error.
C21_AdapterErrorIsReturned ==
    [][ /\ \A q \in PaymentCalls, answer \in GatewayAnswers :
              ( /\ PayStep(q[1], q[2], answer)
                /\ answer.raises
                /\ result'.calls # <<>> )
              => /\ ~result'.success
                 /\ result'.txn = <<>>
                 /\ result'.message = "Payment processing error: {e}"
                 /\ result'.text = answer.message
        /\ \A t \in RefundTxns, amount \in RefundAmounts, answer \in RefundAnswers :
              ( /\ RefundStep(t, amount, answer)
                /\ answer.raises
                /\ result'.calls # <<>> )
              => /\ ~result'.success
                 /\ result'.txn = <<>>
                 /\ result'.message = "Refund processing error: {e}"
                 /\ result'.text = answer.message ]_vars

\* C21 witness: the adapter was called for a payment of 15.00 and raised,
\* and the payment returned a failure with the adapter's text.
C21_Witness ==
    /\ result.op = "pay"
    /\ ~result.success
    /\ Len(result.calls) = 1
    /\ result.calls[1].amount = 15000
    /\ result.message = "Payment processing error: {e}"
    /\ result.text = "timeout"

\* C22: a refund whose transaction id does not begin with "txn_", or whose
\* amount is not above 0 or is above 15.00, is refused without a call of the
\* adapter; every other refund, one of exactly 15.00 included, calls the
\* adapter exactly once with the transaction id and the amount given and
\* succeeds exactly when the adapter reports success, with its message.
C22_RefundChecksThenOneCall ==
    [][\A t \in RefundTxns, amount \in RefundAmounts, answer \in RefundAnswers :
          RefundStep(t, amount, answer)
          => LET hasPrefix ==
                     /\ Len(t) >= 4
                     /\ t[1] = "t" /\ t[2] = "x" /\ t[3] = "n" /\ t[4] = "_"
                 inRange == 0 < amount /\ amount <= 15000
             IN  IF ~hasPrefix \/ ~inRange
                 THEN /\ ~result'.success
                      /\ result'.calls = <<>>
                 ELSE /\ result'.calls =
                             <<[transaction_id |-> t, amount |-> amount]>>
                      /\ result'.success = (~answer.raises /\ answer.success)
                      /\ result'.text = answer.message ]_vars

\* C22 witness: a refund of exactly 15.00 was passed to the adapter and
\* succeeded.
C22_Witness ==
    /\ result.op = "refund"
    /\ result.success
    /\ result.calls = <<[transaction_id |-> <<"t", "x", "n", "_", "1">>,
                         amount |-> 15000]>>
    /\ result.text = "refunded"

\* the rule of the patron id as the specification words it: exactly six
\* characters, every one a digit (a digit as str.isdigit() knows it)
WellFormedId(patron_id) ==
    /\ Len(patron_id) = PatronIdLen
    /\ \A i \in 1..Len(patron_id) : patron_id[i] \in DigitChars

EntryOps == {"borrow", "return", "late_fee", "status", "pay"}

\* the outcome an entry point gives to a malformed id
MalformedOutcome ==
    CASE result.op \in {"borrow", "return", "pay"} ->
             /\ ~result.success
             /\ result.message = "Invalid patron ID. Must be exactly 6 digits."
             /\ result.txn = <<>>
      [] result.op = "late_fee" ->
             /\ result.fee = 0
             /\ result.days = 0
             /\ result.message = "Invalid patron ID format."
      [] result.op = "status" ->
             /\ result.report[1].keys = {"error"}
             /\ result.report[1].error = "Invalid patron ID format."

OpenOfBook(recs, book_id) ==
    {i \in 1..Len(recs) : recs[i].book_id = book_id /\ recs[i].return_date = NULL}

\* recs2 is recs1 with one more record, an open one of the patron and the book
OneRecordAdded(recs1, recs2, patron_id, book_id) ==
    /\ Len(recs2) = Len(recs1) + 1
    /\ SubSeq(recs2, 1, Len(recs1)) = recs1
    /\ recs2[Len(recs2)].patron_id = patron_id
    /\ recs2[Len(recs2)].book_id = book_id
    /\ recs2[Len(recs2)].return_date = NULL

\* C24: a borrow that passed its checks reports success exactly when the
\* insert of the record and the decrement of availability both succeeded;
\* when the insert fails nothing is written and the failure is a database
\* error; when the decrement fails after the insert the failure is a database
\* error, the new open record remains and no available count has changed
C24_BorrowWritesNoRollback ==
    [][\A q \in ReportRequests, insertOK \in BOOLEAN, updateOK \in BOOLEAN :
          ( /\ result'.op = "borrow"
            /\ result'.patron = q[1]
            /\ result'.book = q[2]
            /\ BorrowRefusal(books, borrow_records, q[1], q[2]) = ""
            /\ Borrow(q[1], q[2], insertOK, updateOK) )
          => /\ result'.success <=> (insertOK /\ updateOK)
             /\ ~insertOK =>
                   /\ result'.message =
                          "Database error occurred while creating borrow record."
                   /\ UNCHANGED <<books, borrow_records>>
             /\ (insertOK /\ ~updateOK) =>
                   /\ result'.message =
                          "Database error occurred while updating book availability."
                   /\ OneRecordAdded(borrow_records, borrow_records', q[1], q[2])
                   /\ UNCHANGED books
             /\ (insertOK /\ updateOK) =>
                   /\ OneRecordAdded(borrow_records, borrow_records', q[1], q[2])
                   /\ books'[q[2]].available_copies =
                          books[q[2]].available_copies - 1
      ]_vars

\* a borrow has failed at the decrement: its record is open and every copy
\* of the book is still counted as available
C24_Witness ==
    /\ result.op = "borrow"
    /\ result.message = "Database error occurred while updating book availability."
    /\ Len(borrow_records) > 0
    /\ borrow_records[Len(borrow_records)].patron_id = result.patron
    /\ borrow_records[Len(borrow_records)].book_id = result.book
    /\ borrow_records[Len(borrow_records)].return_date = NULL
    /\ books[result.book].available_copies = books[result.book].total_copies

\* C25: a successful return reports the fee owed by the record it has just
\* closed, from that record's due date to the return timestamp it has just
\* set, and its message carries the late-fee note exactly when that fee is
\* above zero
C25_ReturnFeeOfClosedRecord ==
    [][\A q \in LoanRequests :
          (ReturnStep(q[1], q[2]) /\ result'.success)
          => \E i \in 1..Len(borrow_records) :
                /\ borrow_records[i].patron_id = q[1]
                /\ borrow_records[i].book_id = q[2]
                /\ borrow_records[i].return_date = NULL
                /\ borrow_records'[i].return_date = isoformat(now)
                /\ result'.fee =
                       SpecFee(date(now)
                               - borrow_records[i].due_date[1])
                /\ result'.note <=> (result'.fee > 0)
      ]_vars

\* the records of a patron and a book: all of them, or the open ones
PairRecords(recs, patron_id, book_id, open) ==
    {i \in 1..Len(recs) :
        /\ recs[i].patron_id = patron_id
        /\ recs[i].book_id = book_id
        /\ open => recs[i].return_date = NULL}

\* the answer of the fee calculation for a book the patron does not hold
NothingOwed ==
    /\ result'.fee = 0
    /\ result'.days = 0
    /\ result'.message =
          IF \E i \in 1..Len(books) : books[i].id = result'.book
          THEN "Book is not currently borrowed by this patron."
          ELSE "Book not found."

\* C26 as stated: the fee calculation for a well-formed patron id and a
\* book of which the patron has no open record gives fee 0, 0 days overdue
\* and the status "Book not found." or "Book is not currently borrowed by
\* this patron.", also after the patron has borrowed and returned the book
C26_NoOpenRecordNothingOwed ==
    [][\A p \in EntryPatrons, b \in EntryFeeBooks :
          ( /\ LateFeeStep(p, b)
            /\ WellFormedId(p)
            /\ PairRecords(borrow_records, p, b, TRUE) = {} )
          => NothingOwed
      ]_vars

\* C26: the fee calculation for a well-formed patron id and a book of which
\* the patron has no record, open or returned, gives fee 0, 0 days overdue
\* and the status "Book not found." when the book does not exist and "Book
\* is not currently borrowed by this patron." when it does
C26_NoRecordNothingOwed ==
    [][\A p \in EntryPatrons, b \in EntryFeeBooks :
          ( /\ LateFeeStep(p, b)
            /\ WellFormedId(p)
            /\ PairRecords(borrow_records, p, b, FALSE) = {} )
          => NothingOwed
      ]_vars

\* the fee was asked for a book of the catalog of which the patron has no
\* record, while the patron has a returned loan of another book
C26_Witness ==
    /\ result.op = "late_fee"
    /\ WellFormedId(result.patron)
    /\ result.message = "Book is not currently borrowed by this patron."
    /\ PairRecords(borrow_records, result.patron, result.book, FALSE) = {}
    /\ \E i \in 1..Len(borrow_records) :
          /\ borrow_records[i].patron_id = result.patron
          /\ borrow_records[i].return_date # NULL

\* caller c has taken the step of the accessor named pc
Stepped(c, pc) == result[c].pc = pc /\ result'[c].pc # pc

\* C27: with each accessor call one step and two callers interleaved, borrow
\* is not atomic: the step that creates a caller's record leaves the book's
\* available count as it was, with the decrement still to come, and while
\* one caller is between its insert and its decrement the other caller's
\* availability check passes on the count not yet decremented and its limit
\* check passes on a count below the limit
C27_BorrowNotAtomic ==
    [][\A c \in Callers :
          /\ Stepped(c, "insert_borrow_record")
             => /\ result'[c].pc = "update_book_availability"
                /\ OneRecordAdded(borrow_records, borrow_records',
                                  result[c].patron_id, result[c].book_id)
                /\ UNCHANGED books
          /\ \A d \in Callers \ {c} :
                result[c].pc = "update_book_availability"
                => /\ ( /\ Stepped(d, "get_book_by_id")
                        /\ result[d].book_id \in 1..Len(books)
                        /\ books[result[d].book_id].available_copies > 0 )
                      => /\ result'[d].pc = "get_patron_borrow_count"
                         /\ result'[d].book = <<books[result[d].book_id]>>
                   /\ ( /\ Stepped(d, "get_patron_borrow_count")
                        /\ OpenCount(borrow_records, result[d].patron_id)
                              < BorrowLimit )
                      => /\ result'[d].pc = "insert_borrow_record"
                         /\ result'[d].current_borrowed =
                               OpenCount(borrow_records, result[d].patron_id)
      ]_vars

\* one caller is between its insert and its decrement, and the other has
\* passed both checks for the same patron and book: it has counted the first
\* caller's record and has read the book with every copy still available
C27_Witness ==
    \E c \in Callers, d \in Callers :
        /\ c # d
        /\ result[c].pc = "update_book_availability"
        /\ result[d].pc = "insert_borrow_record"
        /\ result[d].patron_id = result[c].patron_id
        /\ result[d].book_id = result[c].book_id
        /\ result[d].current_borrowed = 1
        /\ OpenCount(borrow_records, result[c].patron_id) = 1
        /\ result[d].book[1].available_copies =
              books[result[c].book_id].total_copies
        /\ books[result[c].book_id].available_copies =
              books[result[c].book_id].total_copies

\* C28: for every book, the available copies and the open records of the
\* book add up to its total copies, in every state reached by add_book,
\* borrow and return from a catalog without records
C28_CopiesAddUp ==
    \A i \in 1..Len(books) :
        books[i].available_copies
        + Cardinality(OpenOfBook(borrow_records, books[i].id))
        = books[i].total_copies

\* C29: a successful return of a book by a patron closes exactly one
\* record: the patron has one open record less, and every record of another
\* patron or of another book is as it was
C29_ReturnClosesOneRecord ==
    [][\A q \in LoanRequests :
          (ReturnStep(q[1], q[2]) /\ result'.success)
          => /\ Len(borrow_records') = Len(borrow_records)
             /\ OpenCount(borrow_records', q[1])
                   = OpenCount(borrow_records, q[1]) - 1
             /\ \A i \in 1..Len(borrow_records) :
                   ( \/ borrow_records[i].patron_id # q[1]
                     \/ borrow_records[i].book_id # q[2] )
                   => borrow_records'[i] = borrow_records[i]
      ]_vars

\* the messages of the checks a borrow or a return can fail
CheckMessages ==
    {"Invalid patron ID. Must be exactly 6 digits.",
     "Book not found.",
     "This book is currently not available.",
     "You have reached the maximum borrowing limit of 5 books.",
     "No active borrowing record found for this book and patron."}

\* C30: a borrow or a return that fails a check (malformed patron id, book
\* not found, no copies available, borrowing limit reached, no borrowing
\* record) leaves the tables as they were: no record is created or changed
\* and no available count changes
C30_FailedCallWritesNothing ==
    [][\A q \in LimitRequests :
          ( /\ BorrowStep(q[1], q[2]) \/ ReturnStep(q[1], q[2])
            /\ ~result'.success )
          => /\ result'.message \in CheckMessages
             /\ UNCHANGED <<books, borrow_records>>
      ]_vars

\* a return has failed for want of a record while the patron holds loans of
\* the other book
C30_Witness ==
    /\ result.op = "return"
    /\ result.message = "No active borrowing record found for this book and patron."
    /\ OpenCount(borrow_records, result.patron) > 0
    /\ \E i \in 1..Len(books) :
          books[i].available_copies < books[i].total_copies

====
